---- MODULE Spec2Model ----
(***************************************************************************)
(* Forward-mode automatic differentiation with dual numbers (autodj).      *)
(*                                                                         *)
(* The model covers the generic `Dual` trait (src/src/fluid.rs) with the   *)
(* four gradient storages of src/src/solid/ (single, array, vector,        *)
(* sparse) and the earlier `DualCommon` arithmetic (src/src/common.rs)     *)
(* with its dual components (f64, src/src/array.rs, src/src/vector.rs).    *)
(*                                                                         *)
(* A `Value` is modelled as an exact rational <<numerator, denominator>>   *)
(* in lowest terms with a positive denominator: the ordered-field part of  *)
(* `num_traits::real::Real`.  Rounding and the IEEE special values are     *)
(* outside the model; operations that would divide by zero are not taken.  *)
(***************************************************************************)
EXTENDS Integers, Sequences, FiniteSets, TLC

(***************************************************************************)
(* Bounds of the model.                                                    *)
(***************************************************************************)
MaxVal == 2          \* raw values and real parts range over -1..MaxVal
MaxLen == 2          \* longest Vec gradient handed to Dual::new
ArrayN == 2          \* the const generic N of array::Grad<V, N>
NumKeys == 2         \* number of distinct keys of the sparse gradient
MaxGradLen == 3      \* longest Vec gradient of the gradient-level checks
MaxSize == 66        \* largest const generic N tried on multi::DualNumber<N>
MaxIter == 3         \* largest max_iter handed to newton_iterations
FracSteps == 40      \* Fraction::try_from is tried on n / FracSteps, n in -FracSteps..2*FracSteps
MaxIndexN == 3       \* largest N and Vec length of the index checks

(***************************************************************************)
(* Values: exact rationals.                                                *)
(***************************************************************************)
Abs(x) == IF x < 0 THEN -x ELSE x

RECURSIVE GCD(_, _)
GCD(x, y) == IF y = 0 THEN x ELSE GCD(y, x % y)

\* lowest terms, positive denominator
Rat(n, d) ==
    LET s == IF d < 0 THEN -1 ELSE 1
        g == GCD(Abs(n), Abs(d))
    IN  <<(s * n) \div g, (s * d) \div g>>

Int2Rat(n) == <<n, 1>>
Zero == <<0, 1>>
One == <<1, 1>>

RAdd(x, y) == Rat(x[1] * y[2] + y[1] * x[2], x[2] * y[2])
RNeg(x) == <<-x[1], x[2]>>
RSub(x, y) == Rat(x[1] * y[2] - y[1] * x[2], x[2] * y[2])
RMul(x, y) == Rat(x[1] * y[1], x[2] * y[2])
RDiv(x, y) == Rat(x[1] * y[2], x[2] * y[1])
RIsZero(x) == x[1] = 0

\* Real::powi for an integer exponent (x # 0 when the exponent is negative)
RECURSIVE RPowi(_, _)
RPowi(x, n) ==
    IF n = 0 THEN One
    ELSE IF n < 0 THEN RDiv(One, RPowi(x, -n))
    ELSE RMul(x, RPowi(x, n - 1))

\* Real::powf, on the integer-valued exponents the library itself uses
RPowf(x, e) == RPowi(x, e[1])

\* Real::signum and Real::abs on rationals (signum(0.0) is 1.0 for floats)
RSignum(x) == IF x[1] < 0 THEN <<-1, 1>> ELSE One
RAbs(x) == <<Abs(x[1]), x[2]>>

\* Real::sin_cos.  The transcendental pair is stood in for by the rational
\* point of the unit circle with half-angle tangent x: sin = 2x / (1 + x^2),
\* cos = (1 - x^2) / (1 + x^2); sin^2 + cos^2 = 1, sin_cos(0) = (0, 1)
RSinCos(x) ==
    LET square == RMul(x, x)
    IN  <<RDiv(RMul(Int2Rat(2), x), RAdd(One, square)),
          RDiv(RSub(One, square), RAdd(One, square))>>

Max(x, y) == IF x >= y THEN x ELSE y
Min(x, y) == IF x <= y THEN x ELSE y

(***************************************************************************)
(* Gradients of src/src/solid/: one operator per trait method.             *)
(***************************************************************************)
\* the value an out-of-range array slot would give: the panic branch
Panic == <<0, 0>>

\* add_assign that reads rhs one slot off (`rhs.0.get(0)` for every index)
ArrayGradAddAssignFirstSlot(self, rhs) ==
    [index \in 1..Len(self) |->
        IF 1 <= Len(rhs) THEN RAdd(self[index], rhs[1]) ELSE Panic]

\* solid/array.rs: impl AddAssign for Grad<V, N>
ArrayGradAddAssign(self, rhs) ==
    [index \in 1..Len(self) |->
        IF index <= Len(rhs) THEN RAdd(self[index], rhs[index]) ELSE Panic]

\* solid/array.rs: impl MulAssign<V> for Grad<V, N>
ArrayGradMulAssign(self, rhs) == [index \in 1..Len(self) |-> RMul(self[index], rhs)]

\* solid/array.rs: impl Neg for Grad<V, N>
ArrayGradNeg(self) == [index \in 1..Len(self) |-> RNeg(self[index])]

\* solid/array.rs: Zero::zero
ArrayGradZero == [index \in 1..ArrayN |-> Zero]

\* solid/array.rs: Zero::is_zero; `find` of a non-zero element, then is_some()
ArrayGradIsZero(self) == \E index \in DOMAIN self : ~RIsZero(self[index])

\* solid/vector.rs: impl AddAssign for Grad<V>; zip stops at the shorter side
VectorGradAddAssign(self, rhs) ==
    [index \in 1..Len(self) |->
        IF index <= Len(rhs) THEN RAdd(self[index], rhs[index]) ELSE self[index]]

\* solid/vector.rs: impl MulAssign<V> for Grad<V>
VectorGradMulAssign(self, rhs) == [index \in 1..Len(self) |-> RMul(self[index], rhs)]

\* solid/vector.rs: impl Neg for Grad<V>
VectorGradNeg(self) == [index \in 1..Len(self) |-> RNeg(self[index])]

\* A zero() that allocates one zero entry (`vec![V::zero()]`)
VectorGradZeroOneEntry == <<Zero>>

\* solid/vector.rs: Zero::zero
VectorGradZero == <<>>

\* solid/vector.rs: Zero::is_zero; `find` of a non-zero element, then is_some()
VectorGradIsZero(self) == \E index \in DOMAIN self : ~RIsZero(self[index])

\* merge_assign without `and_modify`: a common key keeps the value of map1
merge_assign_keep_existing(map1, map2, op) ==
    [key \in (DOMAIN map1) \cup (DOMAIN map2) |->
        IF key \in DOMAIN map1 THEN map1[key] ELSE map2[key]]

\* merge_assign as `HashMap::extend`: a common key takes the value of map2
merge_assign_overwrite(map1, map2, op) ==
    [key \in (DOMAIN map1) \cup (DOMAIN map2) |->
        IF key \in DOMAIN map2 THEN map2[key] ELSE map1[key]]

\* solid/sparse.rs: merge_assign
\* (op is the closure, as a function of the pair of its arguments)
merge_assign(map1, map2, op) ==
    [key \in (DOMAIN map1) \cup (DOMAIN map2) |->
        IF key \in DOMAIN map2
        THEN IF key \in DOMAIN map1 THEN op[<<map1[key], map2[key]>>] ELSE map2[key]
        ELSE map1[key]]

\* solid/sparse.rs: impl AddAssign for Grad<Key, V>
SparseGradAddAssign(self, rhs) ==
    LET closure == [xy \in {<<self[key], rhs[key]>> :
                                key \in (DOMAIN self) \cap (DOMAIN rhs)} |->
                        RAdd(xy[1], xy[2])]
    IN  merge_assign(self, rhs, closure)

\* solid/sparse.rs: impl MulAssign<V> for Grad<Key, V>
SparseGradMulAssign(self, rhs) == [key \in DOMAIN self |-> RMul(self[key], rhs)]

\* solid/sparse.rs: impl Neg for Grad<Key, V>
SparseGradNeg(self) == [key \in DOMAIN self |-> RNeg(self[key])]

\* solid/sparse.rs: Zero::zero
SparseGradZero == <<>>

\* solid/sparse.rs: Zero::is_zero
SparseGradIsZero(self) == DOMAIN self = {} \/ \A key \in DOMAIN self : RIsZero(self[key])

\* solid/array.rs, solid/vector.rs, solid/sparse.rs: impl Add for Grad
\* (`let mut out = self; out += rhs; out`)
ArrayGradAdd(self, rhs) == ArrayGradAddAssign(self, rhs)
VectorGradAdd(self, rhs) == VectorGradAddAssign(self, rhs)
SparseGradAdd(self, rhs) == SparseGradAddAssign(self, rhs)

(***************************************************************************)
(* Dual components of the earlier implementation (array.rs, vector.rs).    *)
(***************************************************************************)
\* array.rs: binary_operation
\* (op is the closure, as a function of the pair of its arguments)
binary_operation(a_, b_, op) ==
    [index \in 1..Len(a_) |->
        IF index <= Len(b_) THEN op[<<a_[index], b_[index]>>] ELSE a_[index]]

\* array.rs: impl Add<Array<N>> for Array<N>
ArrayAdd(self, rhs) ==
    LET closure == [xy \in {<<self[index], rhs[index]>> :
                                index \in 1..Min(Len(self), Len(rhs))} |->
                        RAdd(xy[1], xy[2])]
    IN  binary_operation(self, rhs, closure)

\* array.rs: impl Sub for Array<N>
ArraySub(self, rhs) ==
    LET closure == [xy \in {<<self[index], rhs[index]>> :
                                index \in 1..Min(Len(self), Len(rhs))} |->
                        RSub(xy[1], xy[2])]
    IN  binary_operation(self, rhs, closure)

\* array.rs: impl Mul<f64> for Array<N>, impl MulAssign<f64> for Array<N>
ArrayMul(self, rhs) == [index \in 1..Len(self) |-> RMul(self[index], rhs)]

\* array.rs: impl Neg for Array<N>
ArrayNeg(self) == [index \in 1..Len(self) |-> RNeg(self[index])]

\* array.rs: impl AddAssign for Array<N>
ArrayAddAssign(self, rhs) ==
    [index \in 1..Len(self) |->
        IF index <= Len(rhs) THEN RAdd(self[index], rhs[index]) ELSE self[index]]

\* array.rs: impl SubAssign for Array<N>
ArraySubAssign(self, rhs) ==
    [index \in 1..Len(self) |->
        IF index <= Len(rhs) THEN RSub(self[index], rhs[index]) ELSE self[index]]

\* array.rs: impl Default for Array<N>
ArrayDefault == [index \in 1..ArrayN |-> Zero]

\* Vec::resize(new_len, 0.0)
Resize(vec, new_len) ==
    [index \in 1..new_len |-> IF index <= Len(vec) THEN vec[index] ELSE Zero]

\* vector.rs: impl AddAssign<&Vector> for Vector
VectorAddAssign(self, rhs) ==
    LET new_len == Max(Len(self), Len(rhs))
        resized == Resize(self, new_len)
    IN  [index \in 1..new_len |->
            IF index <= Len(rhs) THEN RAdd(resized[index], rhs[index])
            ELSE resized[index]]

\* vector.rs: impl SubAssign<&Vector> for Vector, impl SubAssign for Vector
VectorSubAssign(self, rhs) ==
    LET new_len == Max(Len(self), Len(rhs))
        resized == Resize(self, new_len)
    IN  [index \in 1..new_len |->
            IF index <= Len(rhs) THEN RSub(resized[index], rhs[index])
            ELSE resized[index]]

\* vector.rs: impl Add for Vector (through impl Add for &Vector)
VectorAdd(self, rhs) == VectorAddAssign(self, rhs)

\* vector.rs: impl Sub for Vector
VectorSub(self, rhs) == VectorSubAssign(self, rhs)

\* vector.rs: impl Mul<f64> for Vector, impl MulAssign<f64> for Vector
VectorMul(self, rhs) == [index \in 1..Len(self) |-> RMul(self[index], rhs)]

\* vector.rs: impl Neg for Vector
VectorNeg(self) == [index \in 1..Len(self) |-> RNeg(self[index])]

\* vector.rs: #[derive(Default)] on Vector
VectorDefault == <<>>

(***************************************************************************)
(* The Grad contract of fluid.rs, dispatched on the storage in use.        *)
(***************************************************************************)
Shapes == {"single", "array", "vector", "sparse"}

\* AddAssign of the Grad implementor
GradAddAssign(shape, self, rhs) ==
    CASE shape = "single" -> RAdd(self, rhs)
      [] shape = "array" -> ArrayGradAddAssign(self, rhs)
      [] shape = "vector" -> VectorGradAddAssign(self, rhs)
      [] shape = "sparse" -> SparseGradAddAssign(self, rhs)

\* Add of the Grad implementor
GradAdd(shape, self, rhs) ==
    CASE shape = "single" -> RAdd(self, rhs)
      [] shape = "array" -> ArrayGradAdd(self, rhs)
      [] shape = "vector" -> VectorGradAdd(self, rhs)
      [] shape = "sparse" -> SparseGradAdd(self, rhs)

\* MulAssign<V> and Mul<V> of the Grad implementor
GradMulAssign(shape, self, rhs) ==
    CASE shape = "single" -> RMul(self, rhs)
      [] shape = "array" -> ArrayGradMulAssign(self, rhs)
      [] shape = "vector" -> VectorGradMulAssign(self, rhs)
      [] shape = "sparse" -> SparseGradMulAssign(self, rhs)

\* Neg of the Grad implementor
GradNeg(shape, self) ==
    CASE shape = "single" -> RNeg(self)
      [] shape = "array" -> ArrayGradNeg(self)
      [] shape = "vector" -> VectorGradNeg(self)
      [] shape = "sparse" -> SparseGradNeg(self)

\* Zero::zero of the Grad implementor
GradZero(shape) ==
    CASE shape = "single" -> Zero
      [] shape = "array" -> ArrayGradZero
      [] shape = "vector" -> VectorGradZero
      [] shape = "sparse" -> SparseGradZero

\* Zero::is_zero of the Grad implementor
GradIsZero(shape, self) ==
    CASE shape = "single" -> RIsZero(self)
      [] shape = "array" -> ArrayGradIsZero(self)
      [] shape = "vector" -> VectorGradIsZero(self)
      [] shape = "sparse" -> SparseGradIsZero(self)

(***************************************************************************)
(* The DualComponent contract of common.rs, dispatched the same way.       *)
(***************************************************************************)
ComponentShapes == {"single", "array", "vector"}

ComponentAdd(shape, self, rhs) ==
    CASE shape = "single" -> RAdd(self, rhs)
      [] shape = "array" -> ArrayAdd(self, rhs)
      [] shape = "vector" -> VectorAdd(self, rhs)

ComponentSub(shape, self, rhs) ==
    CASE shape = "single" -> RSub(self, rhs)
      [] shape = "array" -> ArraySub(self, rhs)
      [] shape = "vector" -> VectorSub(self, rhs)

ComponentMul(shape, self, rhs) ==
    CASE shape = "single" -> RMul(self, rhs)
      [] shape = "array" -> ArrayMul(self, rhs)
      [] shape = "vector" -> VectorMul(self, rhs)

ComponentNeg(shape, self) ==
    CASE shape = "single" -> RNeg(self)
      [] shape = "array" -> ArrayNeg(self)
      [] shape = "vector" -> VectorNeg(self)

ComponentAddAssign(shape, self, rhs) ==
    CASE shape = "single" -> RAdd(self, rhs)
      [] shape = "array" -> ArrayAddAssign(self, rhs)
      [] shape = "vector" -> VectorAddAssign(self, rhs)

ComponentSubAssign(shape, self, rhs) ==
    CASE shape = "single" -> RSub(self, rhs)
      [] shape = "array" -> ArraySubAssign(self, rhs)
      [] shape = "vector" -> VectorSubAssign(self, rhs)

ComponentZero(shape) ==
    CASE shape = "single" -> Zero
      [] shape = "array" -> ArrayDefault
      [] shape = "vector" -> VectorDefault

(***************************************************************************)
(* fluid.rs: the provided methods of trait Dual.  A dual number is the     *)
(* record [value, dual] of solid.rs.                                       *)
(***************************************************************************)
\* solid.rs: Dual::new
new(value, grad) == [value |-> value, dual |-> grad]

\* parameter that seeds the scalar derivative with 1, as a variable would be
parameter_seeded(shape, value) ==
    new(value, IF shape = "single" THEN One ELSE GradZero(shape))

\* fluid.rs: Dual::parameter
parameter(shape, value) == new(value, GradZero(shape))

\* solid.rs: impl From<V> for DualNumber<V, G>
From(shape, value) == parameter(shape, value)

\* chain that scales the gradient by f(x) in place of f'(x)
chain_scaled_by_value(shape, self, func) ==
    LET fdf == func[self.value]
        dual_new == GradMulAssign(shape, self.dual, fdf[1])
    IN  new(fdf[1], dual_new)

\* fluid.rs: Dual::chain
\* (func is the closure, as a function of the value it is called on)
chain(shape, self, func) ==
    LET fdf == func[self.value]
        dual_new == GradMulAssign(shape, self.dual, fdf[2])
    IN  new(fdf[1], dual_new)

\* powf whose derivative keeps the exponent: exp * x^exp
powf_exponent_kept(shape, self, exp) ==
    LET closure == [x \in {self.value} |-> <<RPowf(x, exp), RMul(RPowf(x, exp), exp)>>]
    IN  chain(shape, self, closure)

\* fluid.rs: Dual::powf
powf(shape, self, exp) ==
    LET closure == [x \in {self.value} |-> <<RPowf(x, exp), RMul(RPowf(x, RSub(exp, One)), exp)>>]
    IN  chain(shape, self, closure)

\* fluid.rs: Dual::recip
recip(shape, self) == powf(shape, self, RNeg(One))

\* abs whose derivative is the sign with sign(0) = 0
abs_flat_at_zero(shape, self) ==
    LET closure == [x \in {self.value} |->
                        <<RAbs(x), IF RIsZero(x) THEN Zero ELSE RSignum(x)>>]
    IN  chain(shape, self, closure)

\* fluid.rs: Dual::abs
abs(shape, self) ==
    LET closure == [x \in {self.value} |-> <<RAbs(x), RSignum(x)>>]
    IN  chain(shape, self, closure)

\* signum that starts from a fresh zero gradient in place of scaling its own
signum_fresh_zero(shape, self) == new(RSignum(self.value), GradZero(shape))

\* fluid.rs: Dual::signum
signum(shape, self) ==
    LET closure == [x \in {self.value} |-> <<RSignum(x), Zero>>]
    IN  chain(shape, self, closure)

\* sin_cos whose cosine keeps the sign of the sine in its derivative
sin_cos_unsigned(shape, self) ==
    LET sc == RSinCos(self.value)
    IN  <<chain(shape, self, [x \in {self.value} |-> <<sc[1], sc[2]>>]),
          chain(shape, self, [x \in {self.value} |-> <<sc[2], sc[1]>>])>>

\* fluid.rs: Dual::sin_cos
sin_cos(shape, self) ==
    LET sc == RSinCos(self.value)
    IN  <<chain(shape, self, [x \in {self.value} |-> <<sc[1], sc[2]>>]),
          chain(shape, self, [x \in {self.value} |-> <<sc[2], RNeg(sc[1])>>])>>

\* fluid.rs: Dual::sin, Dual::cos
sin(shape, self) == sin_cos(shape, self)[1]
cos(shape, self) == sin_cos(shape, self)[2]

\* fluid.rs: Dual::neg_impl
neg_impl(shape, self) == new(RNeg(self.value), GradNeg(shape, self.dual))

\* fluid.rs: Dual::add_assign_impl
add_assign_impl(shape, self, rhs) ==
    new(RAdd(self.value, rhs.value), GradAddAssign(shape, self.dual, rhs.dual))

\* mul_assign_impl that reads the value after the gradient was merged:
\* the value is scaled only when the gradient of rhs is not stored empty
mul_assign_impl_value_by_grad(shape, self, rhs) ==
    LET value_local == self.value
        dual1 == GradMulAssign(shape, self.dual, rhs.value)
        dual2 == GradAddAssign(shape, dual1, GradMulAssign(shape, rhs.dual, value_local))
        value1 == IF rhs.dual = GradZero(shape) THEN self.value
                  ELSE RMul(self.value, rhs.value)
    IN  new(value1, dual2)

\* fluid.rs: Dual::mul_assign_impl
mul_assign_impl(shape, self, rhs) ==
    LET value_local == self.value
        value1 == RMul(self.value, rhs.value)
        dual1 == GradMulAssign(shape, self.dual, rhs.value)
        dual2 == GradAddAssign(shape, dual1, GradMulAssign(shape, rhs.dual, value_local))
    IN  new(value1, dual2)

\* fluid.rs: Dual::sub_assign_impl
sub_assign_impl(shape, self, rhs) == add_assign_impl(shape, self, neg_impl(shape, rhs))

\* fluid.rs: Dual::div_assign_impl
div_assign_impl(shape, self, rhs) == mul_assign_impl(shape, self, recip(shape, rhs))

\* fluid.rs: Dual::add_impl, mul_impl, sub_impl, div_impl (on a clone of self)
add_impl(shape, self, rhs) == add_assign_impl(shape, self, rhs)
mul_impl(shape, self, rhs) == mul_assign_impl(shape, self, rhs)
sub_impl(shape, self, rhs) == sub_assign_impl(shape, self, rhs)
div_impl(shape, self, rhs) == div_assign_impl(shape, self, rhs)

(***************************************************************************)
(* common.rs: DualCommon<D>, the same record with D a DualComponent.       *)
(***************************************************************************)
\* common.rs: impl From<f64> for DualCommon<D>
DualCommonFrom(shape, real) == [value |-> real, dual |-> ComponentZero(shape)]

\* common.rs: DualCommon::chain
\* (func is the closure, as a function of the value it is called on)
DualCommonChain(shape, self, func) ==
    LET fdf == func[self.value]
    IN  [value |-> fdf[1], dual |-> ComponentMul(shape, self.dual, fdf[2])]

\* common.rs: DualCommon::powf
DualCommonPowf(shape, self, exp) ==
    LET closure == [x \in {self.value} |-> <<RPowf(x, exp), RMul(RPowf(x, RSub(exp, One)), exp)>>]
    IN  DualCommonChain(shape, self, closure)

\* common.rs: DualCommon::abs
DualCommonAbs(shape, self) ==
    LET closure == [x \in {self.value} |-> <<RAbs(x), RSignum(x)>>]
    IN  DualCommonChain(shape, self, closure)

\* common.rs: DualCommon::signum
DualCommonSignum(shape, self) ==
    LET closure == [x \in {self.value} |-> <<RSignum(x), Zero>>]
    IN  DualCommonChain(shape, self, closure)

\* common.rs: DualCommon::sin, DualCommon::cos
DualCommonSin(shape, self) ==
    LET sc == RSinCos(self.value)
    IN  DualCommonChain(shape, self, [x \in {self.value} |-> <<sc[1], sc[2]>>])
DualCommonCos(shape, self) ==
    LET sc == RSinCos(self.value)
    IN  DualCommonChain(shape, self, [x \in {self.value} |-> <<sc[2], RNeg(sc[1])>>])

\* lib.rs: the scalar DualNumber {val, dual}: chain_of, sin, cos, sin_cos
chain_of(self, val, deriv) == [val |-> val, dual |-> RMul(deriv, self.dual)]
ScalarSin(self) ==
    LET sc == RSinCos(self.val) IN chain_of(self, sc[1], sc[2])
ScalarCos(self) ==
    LET sc == RSinCos(self.val) IN chain_of(self, sc[2], RNeg(sc[1]))
ScalarSinCos(self) ==
    LET sc == RSinCos(self.val)
    IN  <<chain_of(self, sc[1], sc[2]), chain_of(self, sc[2], RNeg(sc[1]))>>

\* common.rs: impl Add for DualCommon<D>
DualCommonAdd(shape, self, rhs) ==
    [value |-> RAdd(self.value, rhs.value),
     dual |-> ComponentAdd(shape, self.dual, rhs.dual)]

\* common.rs: impl Mul for DualCommon<D>
DualCommonMul(shape, self, rhs) ==
    LET real == RMul(self.value, rhs.value)
        a_ == ComponentMul(shape, self.dual, rhs.value)
        b_ == ComponentMul(shape, rhs.dual, self.value)
    IN  [value |-> real, dual |-> ComponentAdd(shape, a_, b_)]

\* common.rs: impl Sub for DualCommon<D>
DualCommonSub(shape, self, rhs) ==
    [value |-> RSub(self.value, rhs.value),
     dual |-> ComponentSub(shape, self.dual, rhs.dual)]

\* common.rs: impl Div for DualCommon<D>
DualCommonDiv(shape, self, rhs) ==
    LET real == RDiv(self.value, rhs.value)
        a_ == ComponentMul(shape, self.dual, rhs.value)
        b_ == ComponentMul(shape, rhs.dual, self.value)
        reciprocal_denominator == RPowi(rhs.value, -2)
    IN  [value |-> real,
         dual |-> ComponentMul(shape, ComponentSub(shape, a_, b_), reciprocal_denominator)]

\* recip with the operands of the division swapped: self / 1
DualCommonRecipSwapped(shape, self) == DualCommonDiv(shape, self, DualCommonFrom(shape, One))

\* common.rs: DualCommon::recip
DualCommonRecip(shape, self) == DualCommonDiv(shape, DualCommonFrom(shape, One), self)

\* common.rs: impl AddAssign for DualCommon<D>
DualCommonAddAssign(shape, self, rhs) ==
    [value |-> RAdd(self.value, rhs.value),
     dual |-> ComponentAddAssign(shape, self.dual, rhs.dual)]

\* common.rs: impl SubAssign for DualCommon<D>
DualCommonSubAssign(shape, self, rhs) ==
    [value |-> RSub(self.value, rhs.value),
     dual |-> ComponentSubAssign(shape, self.dual, rhs.dual)]

\* common.rs: impl DivAssign for DualCommon<D>; self.real is divided first
DualCommonDivAssign(shape, self, rhs) ==
    LET real == RDiv(self.value, rhs.value)
        a_ == ComponentMul(shape, self.dual, rhs.value)
        b_ == ComponentMul(shape, rhs.dual, real)
        reciprocal_denominator == RPowi(rhs.value, -2)
    IN  [value |-> real,
         dual |-> ComponentMul(shape, ComponentSub(shape, a_, b_), reciprocal_denominator)]

\* common.rs: impl MulAssign for DualCommon<D>; self.real is multiplied first
DualCommonMulAssign(shape, self, rhs) ==
    LET real == RMul(self.value, rhs.value)
        dual1 == ComponentMul(shape, self.dual, rhs.value)
        dual2 == ComponentAddAssign(shape, dual1, ComponentMul(shape, rhs.dual, real))
    IN  [value |-> real, dual |-> dual2]

\* common.rs: impl Neg for DualCommon<D>
DualCommonNeg(shape, self) ==
    [value |-> RNeg(self.value), dual |-> ComponentNeg(shape, self.dual)]

(***************************************************************************)
(* Seeding: into_variable(s) of src/src/solid/.                            *)
(***************************************************************************)
\* solid/single.rs: IntoVariable::into_variable
SingleIntoVariable(value) == new(value, One)

\* solid/array.rs: IntoVariables::into_variables for the const generic N
ArrayIntoVariablesN(N, arr) ==
    [index \in 1..N |->
        LET grad == [grad_index \in 1..N |->
                        IF grad_index = index THEN One ELSE Zero]
        IN  new(IF index <= Len(arr) THEN arr[index] ELSE Panic, grad)]

\* solid/array.rs: IntoVariables::into_variables, N = ArrayN
ArrayIntoVariables(arr) == ArrayIntoVariablesN(ArrayN, arr)

\* LowerExp that reads `get(index)` in place of `get(index - 1)`
ArrayGradLowerExpOffByOne(N, self) ==
    [values |-> [index \in 1..N |-> IF index < Len(self) THEN self[index + 1] ELSE Panic],
     separators |-> IF N = 0 THEN 0 ELSE N - 1]

\* solid/array.rs: impl LowerExp for Grad<V, N>: the derivative values written
\* between "+[" and "]", and the number of ", " written between them
ArrayGradLowerExp(N, self) ==
    [values |-> [index \in 1..N |-> IF index - 1 < Len(self) THEN self[index] ELSE Panic],
     separators |-> IF N = 0 THEN 0 ELSE N - 1]

\* into_variables whose gradient of variable i ends at its own entry
\* (`resize(index + 1, 0.0)`, as vector.rs of the earlier implementation)
VectorIntoVariablesShort(vec) ==
    [index \in 1..Len(vec) |->
        new(vec[index], [i \in 1..index |-> IF i = index THEN One ELSE Zero])]

\* solid/vector.rs: IntoVariables::into_variables
VectorIntoVariables(vec) ==
    LET len == Len(vec)
        grad_holder == [i \in 1..len |-> Zero]
        grads_holder == [i \in 1..len |-> grad_holder]
    IN  [index \in 1..len |->
            LET grad == grads_holder[index]
            IN  new(vec[index],
                    IF index <= Len(grad) THEN [grad EXCEPT ![index] = One] ELSE <<Panic>>)]

(***************************************************************************)
(* The state: two operands, the result of the operation applied to them.   *)
(***************************************************************************)
VARIABLES
    lib,     \* "fluid" (trait Dual over solid::DualNumber) or "common" (DualCommon)
    shape,   \* the gradient storage in use
    raw,     \* the raw values handed to the latest into_variables call
    vars,    \* the result of the latest into_variables call
    made_a,  \* how the left operand was built: [by, value]
    made_b,  \* how the right operand was built
    a,       \* left operand / receiver of the in-place operators
    b,       \* right operand
    op,      \* the operation applied to (a, b), "none" when they are fresh
    lhs,     \* the receiver as it was before the operation
    out,     \* what the operation returned (the receiver for in-place ones)
    g,       \* gradient-level checks: first gradient
    h,       \* second gradient
    k,       \* third gradient
    gop,     \* "init", "none" (gradients fresh) or "add"
    gout,    \* the sums computed from g, h, k
    inputs,  \* evaluation of one function body: the raw inputs
    keys,    \* the Uuid key drawn for each input by the sparse seeding
    estate,  \* "idle", "seeded", "left", "right" or "done"
    left,    \* the left subexpression and its result in every run
    right,   \* the right subexpression and its result in every run
    top,     \* the whole expression and its result in every run
    mcall,   \* multi.rs: the constructor called last, "none" before any call
    msize,   \* the const generic N of the DualNumber<N> asked for
    mout,    \* [panicked, made]: whether the call panicked, what it returned
    npc,     \* newton_iterations: "idle", "loop", "ok" or "err"
    nfunc,   \* the residual function handed in
    ntol,    \* its argument tolerance
    nmax,    \* its argument max_iter
    niter,   \* how many turns of the loop have run
    nresult, \* its local `result`
    ncalc,   \* its local `calc`: an Option of a dual number
    nhist,   \* the residual values evaluated so far, oldest first
    nret,    \* what it returned: the Ok value or the ConvergenceError payload
    fcall,   \* Fraction::try_from: "none" or "try_from"
    fvalue,  \* the f64 it was called with
    fout,    \* the Result it returned
    jpc,     \* sparse pendulum, one turn of its Newton loop: "idle", "seeded",
             \* "evaluated" or "assembled"
    jx,      \* the variables seeded from x with into_variable
    jres,    \* residual_dual: one dual number per equation
    jmat,    \* the Jacobian built from residual_dual: [panicked, rows]
    icall,   \* index checks: the operation called last, "none" before any call
    isize,   \* the const generic N (the length, for a Vec) it was called with
    iout     \* what it returned, with the panic marker where a panic was hit

dual_vars == <<raw, vars, made_a, made_b, a, b, op, lhs, out>>
grad_vars == <<g, h, k, gop, gout>>
eval_vars == <<inputs, keys, estate, left, right, top>>
multi_vars == <<mcall, msize, mout>>
newton_vars == <<npc, nfunc, ntol, nmax, niter, nresult, ncalc, nhist, nret>>
frac_vars == <<fcall, fvalue, fout>>
jac_vars == <<jpc, jx, jres, jmat>>
index_vars == <<icall, isize, iout>>
vars_all ==
    <<lib, shape, raw, vars, made_a, made_b, a, b, op, lhs, out, g, h, k, gop, gout,
      inputs, keys, estate, left, right, top, mcall, msize, mout,
      npc, nfunc, ntol, nmax, niter, nresult, ncalc, nhist, nret,
      fcall, fvalue, fout, jpc, jx, jres, jmat, icall, isize, iout>>

\* what the steps of one kind of run leave alone
other_than_dual == <<grad_vars, eval_vars, multi_vars, newton_vars, frac_vars, jac_vars, index_vars>>
other_than_grad == <<dual_vars, eval_vars, multi_vars, newton_vars, frac_vars, jac_vars, index_vars>>
other_than_eval ==
    <<lib, shape, dual_vars, grad_vars, multi_vars, newton_vars, frac_vars, jac_vars, index_vars>>
other_than_multi ==
    <<lib, shape, dual_vars, grad_vars, eval_vars, newton_vars, frac_vars, jac_vars, index_vars>>
other_than_newton ==
    <<lib, shape, dual_vars, grad_vars, eval_vars, multi_vars, frac_vars, jac_vars, index_vars>>
other_than_frac ==
    <<lib, shape, dual_vars, grad_vars, eval_vars, multi_vars, newton_vars, jac_vars, index_vars>>
other_than_jac ==
    <<lib, shape, dual_vars, grad_vars, eval_vars, multi_vars, newton_vars, frac_vars, index_vars>>
other_than_index ==
    <<lib, shape, dual_vars, grad_vars, eval_vars, multi_vars, newton_vars, frac_vars, jac_vars>>

Libs == {"fluid", "common"}
ShapesOf(l) == IF l = "fluid" THEN Shapes ELSE ComponentShapes

Keys == 1..NumKeys
Vals == {Int2Rat(n) : n \in -1..MaxVal}
Partials == {Zero, One}

\* the gradients Dual::new is handed
GradSet(s) ==
    CASE s = "single" -> Partials
      [] s = "array" -> [1..ArrayN -> Partials]
      [] s = "vector" -> UNION {[1..n -> Partials] : n \in 0..MaxLen}
      [] s = "sparse" -> UNION {[K -> Partials] : K \in SUBSET Keys}

\* parameter / From<V> of the implementation in use
MakeParameter(l, s, value) ==
    IF l = "fluid" THEN From(s, value) ELSE DualCommonFrom(s, value)

\* Zero::zero / DualComponent::zero of the implementation in use
MakeZero(l, s) == IF l = "fluid" THEN GradZero(s) ELSE ComponentZero(s)

NoSums == [sum |-> <<>>, rev |-> <<>>, left |-> <<>>, right |-> <<>>, zero |-> <<>>]

Made(by, value) == [by |-> by, value |-> value]

InitDual ==
    /\ raw = <<>>
    /\ vars = <<>>
    /\ made_a = Made("parameter", Zero)
    /\ made_b = Made("parameter", Zero)
    /\ a = MakeParameter(lib, shape, Zero)
    /\ b = MakeParameter(lib, shape, Zero)
    /\ op = "init"
    /\ lhs = MakeParameter(lib, shape, Zero)
    /\ out = MakeParameter(lib, shape, Zero)

InitGrad ==
    /\ g = MakeZero(lib, shape)
    /\ h = MakeZero(lib, shape)
    /\ k = MakeZero(lib, shape)
    /\ gop = "init"
    /\ gout = NoSums

\* no function body is being evaluated
NoTerm == [expr |-> <<>>, val |-> <<>>]

InitEval ==
    /\ inputs = <<>>
    /\ keys = <<>>
    /\ estate = "idle"
    /\ left = NoTerm
    /\ right = NoTerm
    /\ top = NoTerm

MultiPanic == [panicked |-> TRUE, made |-> <<>>]

InitMulti ==
    /\ mcall = "none"
    /\ msize = 0
    /\ mout = [panicked |-> FALSE, made |-> <<>>]

None == [some |-> FALSE, val |-> Zero]
Some(x) == [some |-> TRUE, val |-> x]
NoCalc == [some |-> FALSE, val |-> [val |-> Zero, dual |-> Zero]]
NoResid == [name |-> "none", volume |-> Zero, temperature |-> Zero, quantity |-> Zero]

InitNewton ==
    /\ npc = "idle"
    /\ nfunc = NoResid
    /\ ntol = Zero
    /\ nmax = 0
    /\ niter = 0
    /\ nresult = Zero
    /\ ncalc = NoCalc
    /\ nhist = <<>>
    /\ nret = None

\* an f64: a finite number, a NaN or an infinity
F64(r) == [kind |-> "num", num |-> r]
NaN == [kind |-> "nan", num |-> Zero]
Infinity == [kind |-> "inf", num |-> Zero]
NegInfinity == [kind |-> "-inf", num |-> Zero]

FractionOk(value) == [ok |-> TRUE, fraction |-> value, err |-> ""]
FractionErr(message) == [ok |-> FALSE, fraction |-> F64(Zero), err |-> message]

InitFraction ==
    /\ fcall = "none"
    /\ fvalue = F64(Zero)
    /\ fout = FractionOk(F64(Zero))

NoMatrix == [panicked |-> FALSE, rows |-> <<>>]

InitJacobian ==
    /\ jpc = "idle"
    /\ jx = <<>>
    /\ jres = <<>>
    /\ jmat = NoMatrix

InitIndex ==
    /\ icall = "none"
    /\ isize = 0
    /\ iout = <<>>

Init ==
    /\ lib \in Libs
    /\ shape \in ShapesOf(lib)
    /\ InitDual
    /\ InitGrad
    /\ InitEval
    /\ InitMulti
    /\ InitNewton
    /\ InitFraction
    /\ InitJacobian
    /\ InitIndex

\* An evaluation builds its left operand, then its right operand, applies one
\* operation and returns: op is "init", "a", "none", then the operation's name.
LoadA(x, by, value) ==
    /\ op = "init"
    /\ a' = x
    /\ made_a' = Made(by, value)
    /\ lhs' = x
    /\ out' = x
    /\ op' = "a"
    /\ UNCHANGED <<lib, shape, b, made_b>>
    /\ UNCHANGED other_than_dual

LoadB(y, by, value) ==
    /\ op = "a"
    /\ b' = y
    /\ made_b' = Made(by, value)
    /\ op' = "none"
    /\ UNCHANGED <<lib, shape, a, made_a, lhs, out>>
    /\ UNCHANGED other_than_dual

LoadReg(reg, x, by, value) ==
    IF reg = "a" THEN LoadA(x, by, value) ELSE LoadB(x, by, value)

\* Dual::new(value, grad) as the left or the right operand
New(reg, value, grad) ==
    /\ LoadReg(reg, new(value, grad), "new", value)
    /\ UNCHANGED <<raw, vars>>

\* Dual::parameter(value) / value.into() as the left or the right operand
Parameter(reg, value) ==
    /\ LoadReg(reg, MakeParameter(lib, shape, value), "parameter", value)
    /\ UNCHANGED <<raw, vars>>

\* input.into_variables(); variable i becomes the left or the right operand
\* when there is one
IntoVariables(input, reg, i) ==
    /\ lib = "fluid"
    /\ op = (IF reg = "a" THEN "init" ELSE "a")
    /\ raw' = input
    /\ \/ shape = "array" /\ Len(input) = ArrayN /\ vars' = ArrayIntoVariables(input)
       \/ shape = "vector" /\ vars' = VectorIntoVariables(input)
    /\ IF Len(input) = 0
       THEN UNCHANGED <<lib, shape, made_a, made_b, a, b, op, lhs, out>>
            /\ UNCHANGED other_than_dual
       ELSE /\ i \in 1..Len(input)
            /\ LoadReg(reg, vars'[i], "into_variables", input[i])

\* variable j of the same into_variables call as the right operand
TakeVariable(j) ==
    /\ j \in 1..Len(vars)
    /\ LoadB(vars[j], "into_variables", vars[j].value)
    /\ UNCHANGED <<raw, vars>>

\* value.into_variable() of the single-variable storage
IntoVariable(reg, value) ==
    /\ lib = "fluid"
    /\ shape = "single"
    /\ LoadReg(reg, SingleIntoVariable(value), "into_variable", value)
    /\ raw' = <<value>>
    /\ vars' = <<SingleIntoVariable(value)>>

\* the evaluation returns: its dual numbers are dropped
Return ==
    /\ op \notin {"init", "a", "none"}
    /\ raw' = <<>>
    /\ vars' = <<>>
    /\ made_a' = Made("parameter", Zero)
    /\ made_b' = Made("parameter", Zero)
    /\ a' = MakeParameter(lib, shape, Zero)
    /\ b' = MakeParameter(lib, shape, Zero)
    /\ op' = "init"
    /\ lhs' = MakeParameter(lib, shape, Zero)
    /\ out' = MakeParameter(lib, shape, Zero)
    /\ UNCHANGED <<lib, shape>>
    /\ UNCHANGED other_than_dual

\* a by-value operation that works on self in place of `self.to_owned()`
ApplyOnReceiver(name, result) ==
    /\ op = "none"
    /\ op' = name
    /\ lhs' = a
    /\ a' = result
    /\ out' = result
    /\ UNCHANGED <<lib, shape, raw, vars, made_a, made_b, b>>
    /\ UNCHANGED other_than_dual

\* one by-value operation on fresh operands: the operands stay, out is new
Apply(name, result) ==
    /\ op = "none"
    /\ op' = name
    /\ lhs' = a
    /\ out' = result
    /\ UNCHANGED <<lib, shape, raw, vars, made_a, made_b, a, b>>
    /\ UNCHANGED other_than_dual

\* one in-place operation on fresh operands: the receiver a is overwritten
ApplyAssign(name, result) ==
    /\ op = "none"
    /\ op' = name
    /\ lhs' = a
    /\ a' = result
    /\ out' = result
    /\ UNCHANGED <<lib, shape, raw, vars, made_a, made_b, b>>
    /\ UNCHANGED other_than_dual

Add ==
    Apply("add", IF lib = "fluid" THEN add_impl(shape, a, b)
                                  ELSE DualCommonAdd(shape, a, b))

Sub ==
    Apply("sub", IF lib = "fluid" THEN sub_impl(shape, a, b)
                                  ELSE DualCommonSub(shape, a, b))

Mul ==
    Apply("mul", IF lib = "fluid" THEN mul_impl(shape, a, b)
                                  ELSE DualCommonMul(shape, a, b))

Div ==
    /\ ~RIsZero(b.value)
    /\ Apply("div", IF lib = "fluid" THEN div_impl(shape, a, b)
                                     ELSE DualCommonDiv(shape, a, b))

Neg ==
    Apply("neg", IF lib = "fluid" THEN neg_impl(shape, a)
                                  ELSE DualCommonNeg(shape, a))

AddAssign ==
    ApplyAssign("add_assign", IF lib = "fluid" THEN add_assign_impl(shape, a, b)
                                               ELSE DualCommonAddAssign(shape, a, b))

SubAssign ==
    ApplyAssign("sub_assign", IF lib = "fluid" THEN sub_assign_impl(shape, a, b)
                                               ELSE DualCommonSubAssign(shape, a, b))

MulAssign ==
    ApplyAssign("mul_assign", IF lib = "fluid" THEN mul_assign_impl(shape, a, b)
                                               ELSE DualCommonMulAssign(shape, a, b))

DivAssign ==
    /\ ~RIsZero(b.value)
    /\ ApplyAssign("div_assign", IF lib = "fluid" THEN div_assign_impl(shape, a, b)
                                                  ELSE DualCommonDivAssign(shape, a, b))

\* the exponents powf is called with
Exps == {Int2Rat(2), Int2Rat(-1)}

Powf(exp) ==
    /\ exp[1] < 0 => ~RIsZero(a.value)
    /\ Apply(IF exp = Int2Rat(2) THEN "powf2" ELSE "powf-1",
             IF lib = "fluid" THEN powf(shape, a, exp)
                              ELSE DualCommonPowf(shape, a, exp))

Recip ==
    /\ ~RIsZero(a.value)
    /\ Apply("recip", IF lib = "fluid" THEN recip(shape, a)
                                       ELSE DualCommonRecip(shape, a))

AbsOp ==
    Apply("abs", IF lib = "fluid" THEN abs(shape, a)
                                  ELSE DualCommonAbs(shape, a))

Signum ==
    Apply("signum", IF lib = "fluid" THEN signum(shape, a)
                                     ELSE DualCommonSignum(shape, a))

Sin ==
    Apply("sin", IF lib = "fluid" THEN sin(shape, a) ELSE DualCommonSin(shape, a))

Cos ==
    Apply("cos", IF lib = "fluid" THEN cos(shape, a) ELSE DualCommonCos(shape, a))

\* `let (sin, cos) = a.sin_cos()`; the member looked at is kept in out
SinCos(member) ==
    /\ lib = "fluid"
    /\ Apply(IF member = 1 THEN "sin_cos.0" ELSE "sin_cos.1", sin_cos(shape, a)[member])

\* the raw values handed to into_variables
RawVals == {Int2Rat(-1), Int2Rat(2)}
RawInputs(s) ==
    IF s = "array" THEN [1..ArrayN -> RawVals]
    ELSE UNION {[1..n -> RawVals] : n \in 0..MaxLen}

Loading == op \in {"init", "a"}

Next ==
    \/ Loading /\ \E reg \in {"a", "b"}, value \in Vals, grad \in GradSet(shape) :
          New(reg, value, grad)
    \/ Loading /\ \E reg \in {"a", "b"}, value \in Vals : Parameter(reg, value)
    \/ Loading /\ \E input \in RawInputs(shape), reg \in {"a", "b"}, i \in 1..Max(MaxLen, ArrayN) :
          IntoVariables(input, reg, i)
    \/ Loading /\ \E j \in 1..Max(MaxLen, ArrayN) : TakeVariable(j)
    \/ Loading /\ \E reg \in {"a", "b"}, value \in Vals : IntoVariable(reg, value)
    \/ Return
    \/ Add
    \/ Sub
    \/ Mul
    \/ Div
    \/ Neg
    \/ AddAssign
    \/ SubAssign
    \/ MulAssign
    \/ DivAssign
    \/ \E exp \in Exps : Powf(exp)
    \/ Recip
    \/ AbsOp
    \/ Signum
    \/ Sin
    \/ Cos
    \/ \E member \in 1..2 : SinCos(member)

Spec == Init /\ [][Next]_vars_all

(***************************************************************************)
(* Gradient level: the sums of gradients built with Grad::from.            *)
(***************************************************************************)
GradPartials == {Int2Rat(-1), One, Int2Rat(2)}

\* the gradients Grad::from / Zero::zero hand to the sums
GradInputs(s) ==
    CASE s = "single" -> GradPartials
      [] s = "array" -> [1..ArrayN -> GradPartials]
      [] s = "vector" -> UNION {[1..n -> GradPartials] : n \in 0..MaxGradLen}
      [] s = "sparse" -> UNION {[K -> GradPartials] : K \in SUBSET Keys}

\* the by-value sum of the implementation in use
MakeSum(l, s, x, y) == IF l = "fluid" THEN GradAdd(s, x, y) ELSE ComponentAdd(s, x, y)

\* Grad::from(x) (or Zero::zero) as the first, second and third gradient; a
\* third one is built only where maps are merged.  gop is "init", "g", "h",
\* "none" (all three fresh), then "add".
FromGrad(x) ==
    /\ gop \in {"init", "g", "h"}
    /\ gop = "h" => (x = MakeZero(lib, shape) \/ shape = "sparse")
    /\ g' = IF gop = "init" THEN x ELSE g
    /\ h' = IF gop = "g" THEN x ELSE h
    /\ k' = IF gop = "h" THEN x ELSE k
    /\ gop' = CASE gop = "init" -> "g" [] gop = "g" -> "h" [] gop = "h" -> "none"
    /\ UNCHANGED <<lib, shape, gout>>
    /\ UNCHANGED other_than_grad

\* g + h, h + g, (g + h) + k and g + (h + k); the generic library then asks
\* is_zero of Zero::zero(), of g and of g + h
AddGrads ==
    /\ gop = "none"
    /\ gop' = "add"
    /\ gout' = [sum |-> MakeSum(lib, shape, g, h),
                rev |-> MakeSum(lib, shape, h, g),
                left |-> MakeSum(lib, shape, MakeSum(lib, shape, g, h), k),
                right |-> MakeSum(lib, shape, g, MakeSum(lib, shape, h, k)),
                zero |-> IF lib = "fluid"
                         THEN [of \in {"zero", "g", "sum"} |->
                                  GradIsZero(shape,
                                      CASE of = "zero" -> GradZero(shape)
                                        [] of = "g" -> g
                                        [] of = "sum" -> GradAdd(shape, g, h))]
                         ELSE <<>>]
    /\ UNCHANGED <<lib, shape, g, h, k>>
    /\ UNCHANGED other_than_grad

\* the gradients are dropped
DropGrads ==
    /\ gop = "add"
    /\ g' = MakeZero(lib, shape)
    /\ h' = MakeZero(lib, shape)
    /\ k' = MakeZero(lib, shape)
    /\ gop' = "init"
    /\ gout' = NoSums
    /\ UNCHANGED <<lib, shape>>
    /\ UNCHANGED other_than_grad

NextGrad ==
    \/ gop \in {"init", "g", "h"} /\ \E x \in GradInputs(shape) \cup {MakeZero(lib, shape)} : FromGrad(x)
    \/ AddGrads
    \/ DropGrads

SpecGrad == Init /\ [][NextGrad]_vars_all

(***************************************************************************)
(* One function body run unmodified on plain values and on the dual        *)
(* numbers of every storage (tests/autodiff.rs, tests/test.rs): the body   *)
(* is `left op right` or `op(left)`, where left and right are an input, a  *)
(* parameter, or one operation on inputs and parameters.                   *)
(***************************************************************************)
\* solid/sparse/uuid.rs: IntoVariable::into_variable; grad_id is the Uuid
\* that Uuid::new_v4() returned
UuidIntoVariable(value, grad_id) == new(value, (grad_id :> One))

\* the raw inputs and the parameters of a function body
EvalVals == {Zero, Int2Rat(3)}
EvalParams == {One}

\* the Uuids drawn for the inputs: opaque and distinct, named here in the
\* order they are drawn
EvalKeys == 1..(ArrayN + 1)
KeyDraws ==
    {ks \in [1..ArrayN -> EvalKeys] : \A i, j \in 1..ArrayN : i < j => ks[i] < ks[j]}

\* the runs of the body: on plain values; on scalar dual numbers with input
\* i seeded and the other inputs parameters; on arrays, vectors and maps
\* with every input seeded
Runs ==
    {<<"plain", 0>>, <<"array", 0>>, <<"vector", 0>>, <<"sparse", 0>>}
        \cup {<<"single", i>> : i \in 1..ArrayN}

\* input i as a run sees it
VarIn(run, i) ==
    CASE run[1] = "plain" -> inputs[i]
      [] run[1] = "single" ->
            IF run[2] = i THEN SingleIntoVariable(inputs[i])
            ELSE From("single", inputs[i])
      [] run[1] = "array" -> ArrayIntoVariables(inputs)[i]
      [] run[1] = "vector" -> VectorIntoVariables(inputs)[i]
      [] run[1] = "sparse" -> UuidIntoVariable(inputs[i], keys[i])

\* a parameter as a run sees it: `value.into()`
ParIn(run, value) == IF run[1] = "plain" THEN value ELSE From(run[1], value)

\* Dual::value of a result
ValueIn(run, x) == IF run[1] = "plain" THEN x ELSE x.value

UnaryOps == {"neg", "powf2", "powf-1", "abs"}
BinaryOps == {"add", "sub", "mul", "div"}

\* -x, x.powf(2.0), x.powf(-1.0), x.abs() on f64 and on dual numbers
UnaryIn(run, name, x) ==
    IF run[1] = "plain"
    THEN CASE name = "neg" -> RNeg(x)
           [] name = "powf2" -> RPowf(x, Int2Rat(2))
           [] name = "powf-1" -> RPowf(x, Int2Rat(-1))
           [] name = "abs" -> RAbs(x)
    ELSE CASE name = "neg" -> neg_impl(run[1], x)
           [] name = "powf2" -> powf(run[1], x, Int2Rat(2))
           [] name = "powf-1" -> powf(run[1], x, Int2Rat(-1))
           [] name = "abs" -> abs(run[1], x)

\* x + y, x - y, x * y, x / y on f64 and on dual numbers
BinaryIn(run, name, x, y) ==
    IF run[1] = "plain"
    THEN CASE name = "add" -> RAdd(x, y)
           [] name = "sub" -> RSub(x, y)
           [] name = "mul" -> RMul(x, y)
           [] name = "div" -> RDiv(x, y)
    ELSE CASE name = "add" -> add_impl(run[1], x, y)
           [] name = "sub" -> sub_impl(run[1], x, y)
           [] name = "mul" -> mul_impl(run[1], x, y)
           [] name = "div" -> div_impl(run[1], x, y)

\* the subexpressions: <<"var", i>>, <<"par", c>>, <<unary, leaf>>,
\* <<binary, leaf, leaf>>
Leaves == {<<"var", i>> : i \in 1..ArrayN} \cup {<<"par", c>> : c \in EvalParams}
Terms ==
    Leaves
        \cup {<<name, leaf>> : name \in UnaryOps, leaf \in Leaves}
        \cup {<<name, l1, l2>> : name \in BinaryOps, l1 \in Leaves, l2 \in Leaves}

LeafIn(run, leaf) ==
    IF leaf[1] = "var" THEN VarIn(run, leaf[2]) ELSE ParIn(run, leaf[2])

TermIn(run, term) ==
    CASE term[1] \in {"var", "par"} -> LeafIn(run, term)
      [] term[1] \in UnaryOps -> UnaryIn(run, term[1], LeafIn(run, term[2]))
      [] term[1] \in BinaryOps ->
            BinaryIn(run, term[1], LeafIn(run, term[2]), LeafIn(run, term[3]))

\* no division by zero (it leaves the rationals)
TermDefined(term) ==
    /\ term[1] = "div" =>
          \A run \in Runs : ~RIsZero(ValueIn(run, LeafIn(run, term[3])))
    /\ term[1] = "powf-1" =>
          \A run \in Runs : ~RIsZero(ValueIn(run, LeafIn(run, term[2])))

\* the raw inputs are seeded: into_variable(s) in every run
Seed(input, ks) ==
    /\ estate = "idle"
    /\ inputs' = input
    /\ keys' = ks
    /\ estate' = "seeded"
    /\ UNCHANGED <<left, right, top>>
    /\ UNCHANGED other_than_eval

\* the left, then the right subexpression is evaluated
Term(term) ==
    /\ estate \in {"seeded", "left"}
    /\ TermDefined(term)
    /\ LET result == [expr |-> term, val |-> [run \in Runs |-> TermIn(run, term)]]
       IN  IF estate = "seeded"
           THEN left' = result /\ estate' = "left" /\ UNCHANGED right
           ELSE right' = result /\ estate' = "right" /\ UNCHANGED left
    /\ UNCHANGED <<inputs, keys, top>>
    /\ UNCHANGED other_than_eval

\* the body returns `left op right`
Binary(name) ==
    /\ estate = "right"
    /\ name = "div" => \A run \in Runs : ~RIsZero(ValueIn(run, right.val[run]))
    /\ top' = [expr |-> <<name, left.expr, right.expr>>,
               val |-> [run \in Runs |->
                            BinaryIn(run, name, left.val[run], right.val[run])]]
    /\ estate' = "done"
    /\ UNCHANGED <<inputs, keys, left, right>>
    /\ UNCHANGED other_than_eval

\* the body returns `op(left)`
Unary(name) ==
    /\ estate = "left"
    /\ name = "powf-1" => \A run \in Runs : ~RIsZero(ValueIn(run, left.val[run]))
    /\ top' = [expr |-> <<name, left.expr>>,
               val |-> [run \in Runs |-> UnaryIn(run, name, left.val[run])]]
    /\ estate' = "done"
    /\ UNCHANGED <<inputs, keys, left, right>>
    /\ UNCHANGED other_than_eval

\* the evaluation is over: its dual numbers are dropped
Finish ==
    /\ estate = "done"
    /\ inputs' = <<>>
    /\ keys' = <<>>
    /\ estate' = "idle"
    /\ left' = NoTerm
    /\ right' = NoTerm
    /\ top' = NoTerm
    /\ UNCHANGED other_than_eval

NextEval ==
    \/ estate = "idle" /\ \E input \in [1..ArrayN -> EvalVals], ks \in KeyDraws :
          Seed(input, ks)
    \/ estate \in {"seeded", "left"} /\ \E term \in Terms : Term(term)
    \/ \E name \in BinaryOps : Binary(name)
    \/ \E name \in UnaryOps : Unary(name)
    \/ Finish

\* the runs name their storage themselves: lib and shape stay put
InitRuns == Init /\ lib = "fluid" /\ shape = "array"

SpecEval == InitRuns /\ [][NextEval]_vars_all

(***************************************************************************)
(* multi.rs: DualNumber<N> with an inline gradient of N slots.  Every      *)
(* constructor goes through assert_size; a call either panics or returns   *)
(* the numbers it made.                                                    *)
(***************************************************************************)
SIZE_MIN == 2
SIZE_MAX == 64

\* assert_size with the lower assertion off by one
assert_size_above_min(N) == N > SIZE_MIN /\ N <= SIZE_MAX

\* TRUE when both assertions pass, FALSE when one of them panics
assert_size(N) == N >= SIZE_MIN /\ N <= SIZE_MAX

MultiMade(numbers) == [panicked |-> FALSE, made |-> numbers]

MultiNew(N, val, dual) ==
    IF assert_size(N) THEN MultiMade(<<[val |-> val, dual |-> dual]>>) ELSE MultiPanic

MultiZero(N) == MultiNew(N, Zero, [index \in 1..N |-> Zero])

\* [DualNumber::zero(); NI] evaluates zero() once, whatever NI is
MultiVars(self) ==
    LET NI == Len(self)
        zero == MultiZero(NI)
    IN  IF zero.panicked
        THEN MultiPanic
        ELSE MultiMade([index \in 1..NI |->
                 [val |-> self[index],
                  dual |-> [zero.made[1].dual EXCEPT ![index] = One]]])

MultiPars(self, NV) ==
    LET NI == Len(self)
        zero == MultiZero(NV)
    IN  IF zero.panicked
        THEN MultiPanic
        ELSE MultiMade([index \in 1..NI |->
                 [val |-> self[index], dual |-> zero.made[1].dual]])

CallNew(N, val, d) ==
    /\ mcall = "none"
    /\ mcall' = "new"
    /\ msize' = N
    /\ mout' = MultiNew(N, val, [index \in 1..N |-> d])
    /\ UNCHANGED other_than_multi

CallZero(N) ==
    /\ mcall = "none"
    /\ mcall' = "zero"
    /\ msize' = N
    /\ mout' = MultiZero(N)
    /\ UNCHANGED other_than_multi

CallVars(self) ==
    /\ mcall = "none"
    /\ mcall' = "vars"
    /\ msize' = Len(self)
    /\ mout' = MultiVars(self)
    /\ UNCHANGED other_than_multi

CallPars(self, NV) ==
    /\ mcall = "none"
    /\ mcall' = "pars"
    /\ msize' = NV
    /\ mout' = MultiPars(self, NV)
    /\ UNCHANGED other_than_multi

MultiDrop ==
    /\ mcall # "none"
    /\ mcall' = "none"
    /\ msize' = 0
    /\ mout' = MultiMade(<<>>)
    /\ UNCHANGED other_than_multi

\* every size N in 0..MaxSize, the f64 arguments 0 and 1, pars on 0..2 inputs
NextMulti ==
    \/ mcall = "none" /\ \E N \in 0..MaxSize, val \in {Zero, One}, d \in {Zero, One} :
          CallNew(N, val, d)
    \/ mcall = "none" /\ \E N \in 0..MaxSize : CallZero(N)
    \/ mcall = "none" /\ \E N \in 0..MaxSize, val \in {Zero, One} :
          CallVars([index \in 1..N |-> val])
    \/ mcall = "none" /\ \E NI \in 0..2, NV \in 0..MaxSize, val \in {Zero, One} :
          CallPars([index \in 1..NI |-> val], NV)
    \/ MultiDrop

SpecMulti == InitRuns /\ [][NextMulti]_vars_all

(***************************************************************************)
(* single.rs: the scalar DualNumber {val, dual}, and the Newton solver of  *)
(* examples/ideal_gas.rs built on it.                                      *)
(***************************************************************************)
SingleVar(self) == [val |-> self, dual |-> One]
SinglePar(self) == [val |-> self, dual |-> Zero]

SingleSub(self, rhs) ==
    [val |-> RSub(self.val, rhs.val), dual |-> RSub(self.dual, rhs.dual)]

SingleMul(self, rhs) ==
    [val |-> RMul(self.val, rhs.val),
     dual |-> RAdd(RMul(self.dual, rhs.val), RMul(rhs.dual, self.val))]

\* custom(func, deriv) with func and deriv given as functions of self.val
SingleCustom(self, func, deriv) ==
    [val |-> func[self.val], dual |-> RMul(self.dual, deriv[self.val])]

SingleAbs(self) ==
    SingleCustom(self, [x \in {self.val} |-> RAbs(x)], [x \in {self.val} |-> RSignum(x)])

calc_ideal_gas_generic(pressure, volume, temperature, quantity) ==
    SingleSub(SingleMul(pressure, volume), SingleMul(quantity, temperature))

\* the closure handed to newton_iterations: the residual at x, with the
\* pressure taken as it is ("ideal_gas") or by its magnitude ("abs_gas")
Residual(func, x) ==
    calc_ideal_gas_generic(
        IF func.name = "abs_gas" THEN SingleAbs(x) ELSE x,
        SinglePar(func.volume), SinglePar(func.temperature), SinglePar(func.quantity))

SingleEval(self, func) == Residual(func, SingleVar(self))

RLe(x, y) == x[1] * y[2] <= y[1] * x[2]

\* ConvergenceError that forgets the residual
ConvergenceErrorEmpty(calc) == None

\* ConvergenceError(calc.map_or(None, |x| Some(*x.val())))
ConvergenceError(calc) == IF calc.some THEN Some(calc.val.val) ELSE None

NewtonCall(func, initial, tolerance, max_iter) ==
    /\ npc = "idle"
    /\ npc' = "loop"
    /\ nfunc' = func
    /\ ntol' = tolerance
    /\ nmax' = max_iter
    /\ niter' = 0
    /\ nresult' = initial
    /\ ncalc' = NoCalc
    /\ nhist' = <<>>
    /\ nret' = None
    /\ UNCHANGED other_than_newton

\* one turn of `for _ in 0..=max_iter`
NewtonTurn ==
    /\ npc = "loop"
    /\ niter <= nmax
    /\ LET calc == SingleEval(nresult, nfunc)
           error == RAbs(RSub(calc.val, ntol))
       IN  /\ ncalc' = Some(calc)
           /\ nhist' = Append(nhist, calc.val)
           /\ IF RLe(error, ntol)
              THEN /\ npc' = "ok"
                   /\ nret' = Some(nresult)
                   /\ UNCHANGED <<nresult, niter>>
              ELSE /\ ~RIsZero(calc.dual)
                   /\ nresult' = RAdd(nresult, RDiv(RNeg(calc.val), calc.dual))
                   /\ niter' = niter + 1
                   /\ UNCHANGED <<npc, nret>>
    /\ UNCHANGED <<nfunc, ntol, nmax>>
    /\ UNCHANGED other_than_newton

\* the loop is over: Err(ConvergenceError(..))
NewtonExhausted ==
    /\ npc = "loop"
    /\ niter > nmax
    /\ npc' = "err"
    /\ nret' = ConvergenceError(ncalc)
    /\ UNCHANGED <<nfunc, ntol, nmax, niter, nresult, ncalc, nhist>>
    /\ UNCHANGED other_than_newton

NewtonReturn ==
    /\ npc \in {"ok", "err"}
    /\ npc' = "idle"
    /\ nfunc' = NoResid
    /\ ntol' = Zero
    /\ nmax' = 0
    /\ niter' = 0
    /\ nresult' = Zero
    /\ ncalc' = NoCalc
    /\ nhist' = <<>>
    /\ nret' = None
    /\ UNCHANGED other_than_newton

NextNewton ==
    \/ npc = "idle" /\
          \E func \in [name : {"ideal_gas", "abs_gas"},
                       volume : {One, Int2Rat(2)},
                       temperature : {Int2Rat(-2), Int2Rat(3)},
                       quantity : {One}],
             initial \in {Int2Rat(-1), Zero, Int2Rat(2)},
             tolerance \in {Zero, One},
             max_iter \in 0..MaxIter :
          NewtonCall(func, initial, tolerance, max_iter)
    \/ NewtonTurn
    \/ NewtonExhausted
    \/ NewtonReturn

SpecNewton == InitRuns /\ [][NextNewton]_vars_all

(***************************************************************************)
(* examples/pendulum.rs, examples/pendulum_sparse.rs: the interpolation    *)
(* fraction, built from an f64 with TryFrom.  The comparisons are those of *)
(* f64: every comparison with a NaN is false.                              *)
(***************************************************************************)
F64Lt(x, y) ==
    CASE x.kind = "nan" \/ y.kind = "nan" -> FALSE
      [] x.kind = "-inf" -> y.kind # "-inf"
      [] x.kind = "inf" -> FALSE
      [] y.kind = "inf" -> TRUE
      [] y.kind = "-inf" -> FALSE
      [] OTHER -> x.num[1] * y.num[2] < y.num[1] * x.num[2]

F64Gt(x, y) == F64Lt(y, x)

TryFrom(value) ==
    IF F64Lt(value, F64(Zero)) THEN FractionErr("value is less than zero")
    ELSE IF F64Gt(value, F64(One)) THEN FractionErr("value is greater than one")
    ELSE FractionOk(value)

FractionTryFrom(value) ==
    /\ fcall = "none"
    /\ fcall' = "try_from"
    /\ fvalue' = value
    /\ fout' = TryFrom(value)
    /\ UNCHANGED other_than_frac

FractionDrop ==
    /\ fcall = "try_from"
    /\ fcall' = "none"
    /\ fvalue' = F64(Zero)
    /\ fout' = FractionOk(F64(Zero))
    /\ UNCHANGED other_than_frac

NextFraction ==
    \/ fcall = "none" /\
          \E value \in {F64(Rat(n, FracSteps)) : n \in (-FracSteps)..(2 * FracSteps)}
                           \cup {NaN, Infinity, NegInfinity} :
             FractionTryFrom(value)
    \/ FractionDrop

SpecFraction == InitRuns /\ [][NextFraction]_vars_all

(***************************************************************************)
(* examples/pendulum_sparse.rs: one turn of the loop of newton_iterations, *)
(* up to the Jacobian.  The two unknowns are seeded with into_variable     *)
(* (a fresh Uuid key each), the residual closure returns one sparse dual   *)
(* number per equation, and the Jacobian is filled row by row from the     *)
(* values of each equation's map, in the order the HashMap iterates them.  *)
(***************************************************************************)
\* a residual equation: the sum of terms[c] * x[c] over the unknowns c that
\* occur in it (terms is a function from those unknowns to coefficients)
Equation(terms, x) ==
    LET term(c) == mul_impl("sparse", parameter("sparse", terms[c]), x[c])
    IN  CASE DOMAIN terms = {} -> parameter("sparse", Zero)
          [] DOMAIN terms = {1} -> term(1)
          [] DOMAIN terms = {2} -> term(2)
          [] OTHER -> add_impl("sparse", term(1), term(2))

\* equation.dual().as_ref().values().copied(), the keys met in `order`
Values(grad, order) == [n \in 1..Len(order) |-> grad[order[n]]]

\* the orders a HashMap may iterate its keys in
Orders(grad) ==
    {order \in UNION {[1..n -> DOMAIN grad] : n \in {Cardinality(DOMAIN grad)}} :
        \A m, n \in 1..Len(order) : m # n => order[m] # order[n]}

\* M2::from_row_iterator: two rows of two entries; it panics on a short iterator
from_row_iterator(iter) ==
    IF Len(iter) < 4 THEN [panicked |-> TRUE, rows |-> <<>>]
    ELSE [panicked |-> FALSE, rows |-> <<<<iter[1], iter[2]>>, <<iter[3], iter[4]>>>>]

JacSeed(x, ks) ==
    /\ jpc = "idle"
    /\ jpc' = "seeded"
    /\ jx' = [c \in 1..2 |-> UuidIntoVariable(x[c], ks[c])]
    /\ UNCHANGED <<jres, jmat>>
    /\ UNCHANGED other_than_jac

JacResidual(equations) ==
    /\ jpc = "seeded"
    /\ jpc' = "evaluated"
    /\ jres' = [r \in 1..2 |-> Equation(equations[r], jx)]
    /\ UNCHANGED <<jx, jmat>>
    /\ UNCHANGED other_than_jac

JacAssemble(orders) ==
    /\ jpc = "evaluated"
    /\ jpc' = "assembled"
    /\ jmat' = from_row_iterator(Values(jres[1].dual, orders[1]) \o Values(jres[2].dual, orders[2]))
    /\ UNCHANGED <<jx, jres>>
    /\ UNCHANGED other_than_jac

JacReturn ==
    /\ jpc = "assembled"
    /\ jpc' = "idle"
    /\ jx' = <<>>
    /\ jres' = <<>>
    /\ jmat' = NoMatrix
    /\ UNCHANGED other_than_jac

NextJacobian ==
    \/ jpc = "idle" /\
          \E x \in [1..2 -> {Zero, Int2Rat(3)}],
             ks \in {ks \in [1..2 -> 1..3] : ks[1] # ks[2]} :
             JacSeed(x, ks)
    \/ jpc = "seeded" /\
          \E equations \in [1..2 -> UNION {[S -> {Zero, One, Int2Rat(2)}] : S \in SUBSET (1..2)}] :
             JacResidual(equations)
    \/ jpc = "evaluated" /\
          \E first \in Orders(jres[1].dual), second \in Orders(jres[2].dual) :
             JacAssemble(<<first, second>>)
    \/ JacReturn

SpecJacobian == InitRuns /\ [][NextJacobian]_vars_all

(***************************************************************************)
(* solid/array.rs, solid/vector.rs: the operations that index a gradient   *)
(* or an input, called for every size N from 0 on.  The panic marker in a  *)
(* result says that a panic branch or an out-of-bounds index was reached.  *)
(***************************************************************************)
Indexed(args, panicked, value) == [args |-> args, panicked |-> panicked, value |-> value]

IndexAddAssign(self, rhs) ==
    /\ icall = "none"
    /\ icall' = "add_assign"
    /\ isize' = Len(self)
    /\ LET sum == ArrayGradAddAssign(self, rhs)
       IN  iout' = Indexed(<<self, rhs>>, \E index \in DOMAIN sum : sum[index] = Panic, sum)
    /\ UNCHANGED other_than_index

IndexArrayIntoVariables(arr) ==
    /\ icall = "none"
    /\ icall' = "array_into_variables"
    /\ isize' = Len(arr)
    /\ LET made == ArrayIntoVariablesN(Len(arr), arr)
       IN  iout' = Indexed(<<arr>>, \E index \in DOMAIN made : made[index].value = Panic, made)
    /\ UNCHANGED other_than_index

IndexVectorIntoVariables(vec) ==
    /\ icall = "none"
    /\ icall' = "vector_into_variables"
    /\ isize' = Len(vec)
    /\ LET made == VectorIntoVariables(vec)
       IN  iout' = Indexed(<<vec>>,
                           \E index \in DOMAIN made :
                              \E slot \in DOMAIN made[index].dual :
                                 made[index].dual[slot] = Panic,
                           made)
    /\ UNCHANGED other_than_index

IndexLowerExp(self) ==
    /\ icall = "none"
    /\ icall' = "fmt"
    /\ isize' = Len(self)
    /\ LET text == ArrayGradLowerExp(Len(self), self)
       IN  iout' = Indexed(<<self>>,
                           \E index \in DOMAIN text.values : text.values[index] = Panic, text)
    /\ UNCHANGED other_than_index

IndexDrop ==
    /\ icall # "none"
    /\ icall' = "none"
    /\ isize' = 0
    /\ iout' = <<>>
    /\ UNCHANGED other_than_index

NextIndex ==
    \/ icall = "none" /\ \E N \in 0..MaxIndexN :
          \E self \in [1..N -> {Zero, One}], rhs \in [1..N -> {Zero, One}] :
             IndexAddAssign(self, rhs)
    \/ icall = "none" /\ \E N \in 0..MaxIndexN :
          \E arr \in [1..N -> {Zero, One}] : IndexArrayIntoVariables(arr)
    \/ icall = "none" /\ \E N \in 0..MaxIndexN :
          \E vec \in [1..N -> {Zero, One}] : IndexVectorIntoVariables(vec)
    \/ icall = "none" /\ \E N \in 0..MaxIndexN :
          \E self \in [1..N -> {Zero, One}] : IndexLowerExp(self)
    \/ IndexDrop

SpecIndex == InitRuns /\ [][NextIndex]_vars_all

(***************************************************************************)
(* Reading a derivative component by component: a slot or key that is not  *)
(* stored is the implicit zero.                                            *)
(***************************************************************************)
Components == 1..(Max(Max(MaxLen, ArrayN), Max(NumKeys, MaxGradLen)) + 1)

Partial(s, grad, i) ==
    IF s = "single" THEN (IF i = 1 THEN grad ELSE Zero)
    ELSE IF i \in DOMAIN grad THEN grad[i] ELSE Zero

(***************************************************************************)
(* C1: sum rule.  For every storage and all dual numbers a, b the value of *)
(* a + b is a.value + b.value and every component of its derivative is     *)
(* the sum of the operands' components; likewise for a - b.                *)
(***************************************************************************)
SumRule ==
    /\ op = "add" =>
          /\ out.value = RAdd(lhs.value, b.value)
          /\ \A i \in Components :
                Partial(shape, out.dual, i)
                    = RAdd(Partial(shape, lhs.dual, i), Partial(shape, b.dual, i))
    /\ op = "sub" =>
          /\ out.value = RSub(lhs.value, b.value)
          /\ \A i \in Components :
                Partial(shape, out.dual, i)
                    = RSub(Partial(shape, lhs.dual, i), Partial(shape, b.dual, i))

(***************************************************************************)
(* C2: product rule.  For every storage and all dual numbers a, b (also a  *)
(* parameter times a seeded variable) the value of a * b is                *)
(* a.value * b.value and every component of its derivative is              *)
(* a.derivative * b.value + b.derivative * a.value.                        *)
(***************************************************************************)
ProductRule ==
    op = "mul" =>
        /\ out.value = RMul(lhs.value, b.value)
        /\ \A i \in Components :
              Partial(shape, out.dual, i)
                  = RAdd(RMul(Partial(shape, lhs.dual, i), b.value),
                         RMul(Partial(shape, b.dual, i), lhs.value))

(***************************************************************************)
(* C3: quotient rule.  For all dual numbers a, b with b.value # 0 the      *)
(* value of a / b is a.value / b.value and every component of its          *)
(* derivative is (a.derivative * b.value - b.derivative * a.value)         *)
(* / (b.value * b.value).                                                  *)
(***************************************************************************)
QuotientRule ==
    op = "div" =>
        /\ out.value = RDiv(lhs.value, b.value)
        /\ \A i \in Components :
              Partial(shape, out.dual, i)
                  = RDiv(RSub(RMul(Partial(shape, lhs.dual, i), b.value),
                              RMul(Partial(shape, b.dual, i), lhs.value)),
                         RMul(b.value, b.value))

(***************************************************************************)
(* C4: chain rule.  chain(f) returns f(self.value) as the value and        *)
(* self.derivative scaled by f'(self.value) in every stored component,     *)
(* and leaves self as it was.  Checked on x^2 (f' = 2x) and on x^-1        *)
(* (f' = -1/x^2), the two closures powf hands to chain.                    *)
(***************************************************************************)
ChainF(name, x) == IF name = "powf2" THEN RMul(x, x) ELSE RDiv(One, x)
ChainDF(name, x) ==
    IF name = "powf2" THEN RMul(Int2Rat(2), x) ELSE RNeg(RDiv(One, RMul(x, x)))

ChainRule ==
    op \in {"powf2", "powf-1"} =>
        /\ out.value = ChainF(op, lhs.value)
        /\ shape # "single" => DOMAIN out.dual = DOMAIN lhs.dual
        /\ \A i \in Components :
              Partial(shape, out.dual, i)
                  = RMul(Partial(shape, lhs.dual, i), ChainDF(op, lhs.value))
        /\ a = lhs

ChainRuleWitness ==
    /\ lib = "fluid"
    /\ shape = "vector"
    /\ op = "powf-1"
    /\ lhs = new(Int2Rat(2), <<One, Zero>>)
    /\ out = new(<<1, 2>>, <<<<-1, 4>>, Zero>>)

(***************************************************************************)
(* C5: adding Vec gradients zero-extends.  In either operand order the     *)
(* sum is as long as the longer operand and equals the element-wise sum    *)
(* of the operands padded with zeros.                                      *)
(***************************************************************************)
PaddedSum(x, y) ==
    [i \in 1..Max(Len(x), Len(y)) |->
        RAdd(Partial("vector", x, i), Partial("vector", y, i))]

VectorAddZeroExtends ==
    (gop = "add" /\ shape = "vector") =>
        /\ gout.sum = PaddedSum(g, h)
        /\ gout.rev = PaddedSum(g, h)

(***************************************************************************)
(* C6: for Vec gradients zero() is a two-sided identity of the sum:        *)
(* zero() + g = g and g + zero() = g.                                      *)
(***************************************************************************)
VectorZeroIdentity ==
    (gop = "add" /\ shape = "vector" /\ h = MakeZero(lib, shape)) =>
        /\ gout.sum = g
        /\ gout.rev = g

(***************************************************************************)
(* C7: seeding orthogonality.  into_variables on N raw values returns N    *)
(* dual numbers; variable i has raw value i and a derivative of exactly N  *)
(* entries, 1 at position i and 0 elsewhere.                               *)
(***************************************************************************)
SeedingOrthogonality ==
    (lib = "fluid" /\ shape \in {"array", "vector"}) =>
        /\ Len(vars) = Len(raw)
        /\ \A i \in 1..Len(vars) :
              /\ vars[i].value = raw[i]
              /\ DOMAIN vars[i].dual = 1..Len(raw)
              /\ \A j \in 1..Len(raw) :
                    vars[i].dual[j] = IF j = i THEN One ELSE Zero

SeedingWitness ==
    /\ shape = "vector"
    /\ raw = <<Int2Rat(2), Int2Rat(-1)>>
    /\ Len(vars) = 2
    /\ op = "none"
    /\ a = new(Int2Rat(-1), <<Zero, One>>)
    /\ made_a = Made("into_variables", Int2Rat(-1))

(***************************************************************************)
(* C8: parameter(value) and value.into() keep the value and carry the      *)
(* zero of the storage: 0, N zeros, the empty Vec, the empty map.          *)
(***************************************************************************)
IsStorageZero(s, grad) ==
    CASE s = "single" -> grad = Zero
      [] s = "array" -> DOMAIN grad = 1..ArrayN /\ \A i \in 1..ArrayN : grad[i] = Zero
      [] s = "vector" -> grad = <<>>
      [] s = "sparse" -> DOMAIN grad = {}

ParameterIsConstant ==
    /\ (made_a.by = "parameter" /\ op \in {"init", "a", "none"}) =>
          (a.value = made_a.value /\ IsStorageZero(shape, a.dual))
    /\ made_b.by = "parameter" =>
          (b.value = made_b.value /\ IsStorageZero(shape, b.dual))

ParameterWitness ==
    /\ lib = "fluid"
    /\ shape = "array"
    /\ op = "none"
    /\ made_a = Made("parameter", Int2Rat(2))
    /\ a = new(Int2Rat(2), <<Zero, Zero>>)
    /\ made_b.by = "into_variables"

(***************************************************************************)
(* C9: the sum of two sparse gradients merges by key: its keys are the     *)
(* union of the operands' keys, a key of one operand keeps that operand's  *)
(* value, a key of both maps to the sum, also when the sum is zero.        *)
(***************************************************************************)
SparseMergeByKey ==
    (gop = "add" /\ shape = "sparse") =>
        /\ DOMAIN gout.sum = (DOMAIN g) \cup (DOMAIN h)
        /\ \A key \in (DOMAIN g) \ (DOMAIN h) : gout.sum[key] = g[key]
        /\ \A key \in (DOMAIN h) \ (DOMAIN g) : gout.sum[key] = h[key]
        /\ \A key \in (DOMAIN g) \cap (DOMAIN h) : gout.sum[key] = RAdd(g[key], h[key])

SparseMergeWitness ==
    /\ gop = "add"
    /\ shape = "sparse"
    /\ g = (1 :> One)
    /\ h = (1 :> Int2Rat(-1)) @@ (2 :> Int2Rat(2))
    /\ gout.sum = (1 :> Zero) @@ (2 :> Int2Rat(2))

(***************************************************************************)
(* C10: the sum of sparse gradients is commutative and associative:        *)
(* g + h = h + g and (g + h) + k = g + (h + k).                            *)
(***************************************************************************)
SparseMergeCommAssoc ==
    (gop = "add" /\ shape = "sparse") =>
        /\ gout.sum = gout.rev
        /\ gout.left = gout.right

SparseCommAssocWitness ==
    /\ gop = "add"
    /\ shape = "sparse"
    /\ g = (1 :> One)
    /\ h = (2 :> Int2Rat(2))
    /\ k = (1 :> Int2Rat(2))
    /\ gout.left = (1 :> Int2Rat(3)) @@ (2 :> Int2Rat(2))
    /\ gout.right = gout.left

(***************************************************************************)
(* Reading the results of a function body.                                 *)
(***************************************************************************)
\* the subexpressions and the body evaluated so far
Evaluated == {term \in {left, right, top} : term # NoTerm}

RECURSIVE OpsOf(_)
OpsOf(expr) ==
    IF expr[1] \in {"var", "par"} THEN {}
    ELSE {expr[1]} \cup UNION {OpsOf(expr[n]) : n \in 2..Len(expr)}

RECURSIVE VarsOf(_)
VarsOf(expr) ==
    IF expr[1] = "var" THEN {expr[2]}
    ELSE IF expr[1] = "par" THEN {}
    ELSE UNION {VarsOf(expr[n]) : n \in 2..Len(expr)}

\* the partial derivative with respect to input i in the result of a run
PartialIn(run, term, i) ==
    CASE run[1] = "single" -> term.val[run].dual
      [] run[1] = "sparse" -> Partial("sparse", term.val[run].dual, keys[i])
      [] OTHER -> Partial(run[1], term.val[run].dual, i)

(***************************************************************************)
(* C12: single pass equals per-direction passes.  For a body of +, - and   *)
(* * over the N inputs, entry i of the array derivative obtained with      *)
(* every input seeded by into_variables equals the scalar derivative       *)
(* obtained with input i seeded and the other inputs parameters, and the   *)
(* values agree.                                                           *)
(***************************************************************************)
SinglePassEqualsPerDirection ==
    \A term \in Evaluated :
        OpsOf(term.expr) \subseteq {"add", "sub", "mul"} =>
            \A i \in 1..ArrayN :
                /\ DOMAIN term.val[<<"array", 0>>].dual = 1..ArrayN
                /\ term.val[<<"array", 0>>].dual[i] = term.val[<<"single", i>>].dual
                /\ term.val[<<"array", 0>>].value = term.val[<<"single", i>>].value

\* f(x, y) = (x - 1) * (y - 1) at x = 0, y = 0: value 1, gradient [-1, -1]
SinglePassWitness ==
    /\ estate = "done"
    /\ inputs[1] = Zero
    /\ inputs[2] = Zero
    /\ top.expr = <<"mul", <<"sub", <<"var", 1>>, <<"par", One>>>>,
                           <<"sub", <<"var", 2>>, <<"par", One>>>>>>
    /\ top.val[<<"array", 0>>].value = One
    /\ top.val[<<"array", 0>>].dual[1] = Int2Rat(-1)
    /\ top.val[<<"array", 0>>].dual[2] = Int2Rat(-1)
    /\ top.val[<<"single", 1>>].dual = Int2Rat(-1)

(***************************************************************************)
(* C13: the value channel does not depend on the derivative channel.  The  *)
(* value of every result of +, -, *, / and the elementary functions on     *)
(* dual numbers, in every storage and under every seeding, is the result   *)
(* of the same operations on the plain values.                             *)
(***************************************************************************)
ValueChannelIndependent ==
    \A term \in Evaluated :
        \A run \in Runs : ValueIn(run, term.val[run]) = term.val[<<"plain", 0>>]

\* (x * y) / |x| at x = 3, y = 3 is 3 in every run, whatever is seeded
ValueChannelWitness ==
    /\ estate = "done"
    /\ top.expr[1] = "div"
    /\ left.expr = <<"mul", <<"var", 1>>, <<"var", 2>>>>
    /\ right.expr = <<"abs", <<"var", 1>>>>
    /\ top.val[<<"plain", 0>>] = Int2Rat(3)
    /\ top.val[<<"sparse", 0>>].value = Int2Rat(3)
    /\ top.val[<<"single", 1>>].dual = Zero
    /\ top.val[<<"single", 2>>].dual = One
    /\ top.val[<<"array", 0>>].dual = <<Zero, One>>

(***************************************************************************)
(* C14: powf on a seeded scalar.  For x seeded with into_variable and a    *)
(* parameter c, (x - c).powf(p) has the value (x - c)^p and the            *)
(* derivative p * (x - c)^(p - 1); checked for p = 2 and p = -1.           *)
(***************************************************************************)
PowfRule ==
    \A i \in 1..ArrayN, c \in EvalParams, p \in {2, -1} :
        (/\ estate = "done"
         /\ top.expr = <<(IF p = 2 THEN "powf2" ELSE "powf-1"),
                         <<"sub", <<"var", i>>, <<"par", c>>>>>>)
            => LET shifted == RSub(inputs[i], c)
                   result == top.val[<<"single", i>>]
               IN  /\ result.value = RPowi(shifted, p)
                   /\ result.dual = RMul(Int2Rat(p), RPowi(shifted, p - 1))

\* f(x) = (x - 1)^2 seeded at x = 0: value 1, derivative -2
PowfWitness ==
    /\ estate = "done"
    /\ inputs[1] = Zero
    /\ top.expr = <<"powf2", <<"sub", <<"var", 1>>, <<"par", One>>>>>>
    /\ top.val[<<"single", 1>>] = new(One, Int2Rat(-2))

(***************************************************************************)
(* C15: shape invariant.  Every dual number computed from variables        *)
(* seeded together from N raw values and from parameters, in any operand   *)
(* order, carries a derivative of exactly N entries, and the entry of an   *)
(* input that does not occur in the expression is 0.                       *)
(***************************************************************************)
ShapeInvariant ==
    \A term \in Evaluated :
        VarsOf(term.expr) # {} =>
            \A run \in {<<"array", 0>>, <<"vector", 0>>} :
                /\ DOMAIN term.val[run].dual = 1..ArrayN
                /\ \A i \in (1..ArrayN) \ VarsOf(term.expr) :
                      term.val[run].dual[i] = Zero

(***************************************************************************)
(* C17: the storages are interchangeable.  The same body of +, -, *, /     *)
(* over the same raw inputs, parameters in any operand position, has the   *)
(* same value and the same partial derivative for every input under        *)
(* arrays, vectors (read zero-extended) and maps (absent keys read as 0).  *)
(***************************************************************************)
StoragesInterchangeable ==
    \A term \in Evaluated :
        OpsOf(term.expr) \subseteq BinaryOps =>
            \A run \in {<<"vector", 0>>, <<"sparse", 0>>} :
                /\ term.val[run].value = term.val[<<"array", 0>>].value
                /\ \A i \in 1..ArrayN :
                      PartialIn(run, term, i) = PartialIn(<<"array", 0>>, term, i)

(***************************************************************************)
(* C16: frame condition.  The by-value operations (add_impl, sub_impl,     *)
(* mul_impl, div_impl, neg_impl and chain with the functions built on it)  *)
(* leave self and rhs as they were and return a new dual number; the       *)
(* in-place operations change only the receiver and leave rhs as it was.   *)
(***************************************************************************)
ByValueOps ==
    {"add", "sub", "mul", "div", "neg", "powf2", "powf-1", "recip", "abs", "signum"}
InPlaceOps == {"add_assign", "sub_assign", "mul_assign", "div_assign"}

FrameCondition ==
    [][/\ (op = "none" /\ op' \in ByValueOps) => (a' = a /\ b' = b)
       /\ (op = "none" /\ op' \in InPlaceOps) => (b' = b /\ a' = out')]_vars_all

\* x *= y on array variables changed x and left y alone; before it x was lhs
FrameWitness ==
    /\ lib = "fluid"
    /\ shape = "array"
    /\ op = "mul_assign"
    /\ lhs = new(Int2Rat(2), <<One, Zero>>)
    /\ b = new(Int2Rat(-1), <<Zero, One>>)
    /\ a = new(Int2Rat(-2), <<Int2Rat(-1), Int2Rat(2)>>)
    /\ made_b = Made("into_variables", Int2Rat(-1))

(***************************************************************************)
(* C18: abs.  x.abs() has the value |x.value| and the derivative           *)
(* sign(x.value) * x.derivative in every component, where sign(0) = 0: at  *)
(* x.value = 0 the derivative is 0 whatever x.derivative is.               *)
(***************************************************************************)
SignWithZero(x) == IF x[1] = 0 THEN Zero ELSE IF x[1] < 0 THEN Int2Rat(-1) ELSE One

MultiSizeChecked ==
    mcall # "none" =>
        /\ ~mout.panicked <=> (2 <= msize /\ msize <= 64)
        /\ msize \in 0..1 => mout.panicked
        /\ msize > 64 => mout.panicked
        /\ \A index \in DOMAIN mout.made : Len(mout.made[index].dual) = msize
        /\ mcall \in {"new", "zero"} /\ ~mout.panicked => Len(mout.made) = 1
        /\ mcall = "vars" /\ ~mout.panicked => Len(mout.made) = msize

MultiSizeWitness ==
    /\ mcall = "vars"
    /\ msize = 65
    /\ mout.panicked


(***************************************************************************)
(* C20: newton_iterations reports a convergence failure with the last      *)
(* residual.  When it returns an error no evaluated residual passed the    *)
(* tolerance test, the budget of max_iter + 1 evaluations is used up, and  *)
(* the error carries Some(r) with r the residual evaluated last; the error *)
(* carries None only if the residual function was never evaluated.  When   *)
(* it returns Ok the residual evaluated last passed the test.              *)
(***************************************************************************)
PassesTolerance(r, tolerance) == RLe(RAbs(RSub(r, tolerance)), tolerance)

NewtonFailureCarriesLastResidual ==
    /\ npc = "err" =>
        /\ \A index \in DOMAIN nhist : ~PassesTolerance(nhist[index], ntol)
        /\ Len(nhist) = nmax + 1
        /\ nhist # <<>> => nret = Some(nhist[Len(nhist)])
        /\ ~nret.some => nhist = <<>>
    /\ npc = "ok" =>
        /\ nhist # <<>>
        /\ PassesTolerance(nhist[Len(nhist)], ntol)
        /\ Len(nhist) <= nmax + 1

NewtonFailureWitness ==
    /\ npc = "err"
    /\ nret.some
    /\ Len(nhist) >= 2
    /\ nhist[1] # nhist[Len(nhist)]
    /\ nret.val = nhist[Len(nhist)]

(***************************************************************************)
(* C23: signum.  x.signum() has the value sign(x.value) (the sign function *)
(* of the value type: 1 from zero upwards, -1 below) and a derivative of   *)
(* the shape of x.derivative (same slots, same keys) whose every stored    *)
(* partial is 0.                                                           *)
(***************************************************************************)
SignumRule ==
    op = "signum" =>
        /\ out.value = (IF lhs.value[1] < 0 THEN Int2Rat(-1) ELSE Int2Rat(1))
        /\ \A i \in Components : Partial(shape, out.dual, i) = Zero
        /\ shape = "single" => out.dual = Zero
        /\ shape # "single" =>
              /\ DOMAIN out.dual = DOMAIN lhs.dual
              /\ \A i \in DOMAIN out.dual : out.dual[i] = Zero

\* signum of a negative sparse number with a non-zero stored partial
SignumWitness ==
    /\ op = "signum"
    /\ shape = "sparse"
    /\ lhs.value[1] < 0
    /\ \E i \in DOMAIN lhs.dual : lhs.dual[i] # Zero
    /\ DOMAIN out.dual = DOMAIN lhs.dual

(***************************************************************************)
(* C25: reciprocal.  For a.value # 0, a.recip() has the value 1 / a.value  *)
(* and the derivative -a.derivative / (a.value * a.value) in every         *)
(* component, which is what the quotient rule gives for parameter(1) / a;  *)
(* recip as powf(-1) (fluid) and recip as parameter(1) / a (common) give   *)
(* the same dual number on the storages both have.                         *)
(***************************************************************************)
RecipRule ==
    op = "recip" =>
        /\ out.value = RDiv(One, lhs.value)
        /\ \A i \in Components :
              Partial(shape, out.dual, i)
                  = RDiv(RSub(RMul(Zero, lhs.value), RMul(One, Partial(shape, lhs.dual, i))),
                         RMul(lhs.value, lhs.value))
        /\ shape \in ComponentShapes =>
              /\ out = recip(shape, lhs)
              /\ out = DualCommonRecip(shape, lhs)

\* 1 / (2 + eps) = 1/2 - 1/4 eps on a vector component of the common library
RecipWitness ==
    /\ op = "recip"
    /\ lib = "common"
    /\ shape = "vector"
    /\ lhs.value = Int2Rat(2)
    /\ \E i \in DOMAIN lhs.dual : lhs.dual[i] = One /\ out.dual[i] = Rat(-1, 4)

(***************************************************************************)
(* C26: in-place and by-value operators agree.  After `a op= b`, for op in *)
(* +, -, *, /, the receiver a is the dual number `a op b` returns for the  *)
(* receiver as it was before, in value and derivative, for the generic     *)
(* Dual and for DualCommon.                                                *)
(***************************************************************************)
ByValueResult(name, x, y) ==
    CASE name = "add_assign" ->
            IF lib = "fluid" THEN add_impl(shape, x, y) ELSE DualCommonAdd(shape, x, y)
      [] name = "sub_assign" ->
            IF lib = "fluid" THEN sub_impl(shape, x, y) ELSE DualCommonSub(shape, x, y)
      [] name = "mul_assign" ->
            IF lib = "fluid" THEN mul_impl(shape, x, y) ELSE DualCommonMul(shape, x, y)
      [] name = "div_assign" ->
            IF lib = "fluid" THEN div_impl(shape, x, y) ELSE DualCommonDiv(shape, x, y)

InPlaceAgreesWithByValue ==
    op \in {"add_assign", "sub_assign", "mul_assign", "div_assign"} =>
        /\ a.value = ByValueResult(op, lhs, b).value
        /\ \A i \in Components :
              Partial(shape, a.dual, i) = Partial(shape, ByValueResult(op, lhs, b).dual, i)

(***************************************************************************)
(* C27: is_zero is consistent with zero().  For every storage is_zero(g)   *)
(* is true exactly when every stored partial of g is 0 (so it is true of   *)
(* an empty vector or map): zero().is_zero() is true, and a derivative     *)
(* with a non-zero partial is not reported as zero.                        *)
(***************************************************************************)
AllStoredZero(s, grad) ==
    IF s = "single" THEN grad = Zero ELSE \A i \in DOMAIN grad : grad[i] = Zero

IsZeroConsistent ==
    (gop = "add" /\ lib = "fluid") =>
        /\ gout.zero["zero"]
        /\ gout.zero["g"] <=> AllStoredZero(shape, g)
        /\ gout.zero["sum"] <=> AllStoredZero(shape, gout.sum)

(***************************************************************************)
(* C29: constants stay constant.  An operation (add, sub, mul, div by a    *)
(* non-zero value, neg, the in-place forms, and the chain functions powf,  *)
(* recip, abs, signum) whose operands are parameters returns a dual number *)
(* whose every partial is 0: the result is again the parameter of its own  *)
(* value, so the same holds after any sequence of such operations.         *)
(***************************************************************************)
UnaryNames ==
    {"neg", "powf2", "powf-1", "recip", "abs", "signum", "sin", "cos", "sin_cos.0", "sin_cos.1"}

FromParametersOnly ==
    /\ op \notin {"init", "a", "none"}
    /\ made_a.by = "parameter"
    /\ op \notin UnaryNames => made_b.by = "parameter"

ConstantsStayConstant ==
    FromParametersOnly =>
        /\ \A i \in Components : Partial(shape, out.dual, i) = Zero
        /\ shape # "single" => \A i \in DOMAIN out.dual : out.dual[i] = Zero
        /\ out = MakeParameter(lib, shape, out.value)

\* 1 / 2 of two parameters of the sparse storage
ConstantQuotientWitness ==
    /\ FromParametersOnly
    /\ op = "div"
    /\ shape = "sparse"
    /\ lhs.value = One
    /\ b.value = Int2Rat(2)
    /\ out.value = Rat(1, 2)

(***************************************************************************)
(* C30: newton_iterations accepts exactly the iterates within tolerance.   *)
(* It returns Ok(x) only for an x at which the residual was evaluated and  *)
(* |f(x)| <= tolerance; every iterate it went past (or failed on) had      *)
(* |f(x)| > tolerance.                                                     *)
(***************************************************************************)
WithinTolerance(r, tolerance) == RLe(RAbs(r), tolerance)

NewtonAcceptsWithinTolerance ==
    /\ npc = "ok" =>
        /\ nhist # <<>>
        /\ nret = Some(nresult)
        /\ nhist[Len(nhist)] = Residual(nfunc, SingleVar(nret.val)).val
        /\ WithinTolerance(nhist[Len(nhist)], ntol)
    /\ \A index \in DOMAIN nhist :
          (index < Len(nhist) \/ npc \in {"loop", "err"}) =>
              ~WithinTolerance(nhist[index], ntol)

(***************************************************************************)
(* C21: Fraction::try_from(value) returns Ok(Fraction(value)) exactly when *)
(* 0 <= value <= 1, the error "value is less than zero" when value < 0 and *)
(* the error "value is greater than one" when value > 1: no Fraction       *)
(* holding a value outside [0, 1] is obtained through try_from.            *)
(***************************************************************************)
InUnitInterval(x) == x.kind = "num" /\ 0 <= x.num[1] /\ x.num[1] <= x.num[2]
BelowZero(x) == x.kind = "-inf" \/ (x.kind = "num" /\ x.num[1] < 0)
AboveOne(x) == x.kind = "inf" \/ (x.kind = "num" /\ x.num[1] > x.num[2])

FractionInUnitInterval ==
    fcall = "try_from" =>
        /\ fout.ok <=> InUnitInterval(fvalue)
        /\ fout.ok => (fout.fraction = fvalue /\ InUnitInterval(fout.fraction))
        /\ BelowZero(fvalue) => (~fout.ok /\ fout.err = "value is less than zero")
        /\ AboveOne(fvalue) => (~fout.ok /\ fout.err = "value is greater than one")

(***************************************************************************)
(* C22: the Jacobian built from sparse derivatives is aligned by key.  In  *)
(* the matrix newton_iterations of the sparse pendulum builds, entry       *)
(* (r, c) is the partial derivative of residual equation r for the         *)
(* variable seeded for component c, read from that variable's key and 0    *)
(* when the key is absent: for every order the maps are iterated in, and   *)
(* also when a residual lacks one of the keys.                             *)
(***************************************************************************)
KeyOf(variable) == CHOOSE key \in DOMAIN variable.dual : TRUE

JacobianAlignedByKey ==
    jpc = "assembled" =>
        /\ ~jmat.panicked
        /\ \A r, c \in 1..2 :
              jmat.rows[r][c] = Partial("sparse", jres[r].dual, KeyOf(jx[c]))

(***************************************************************************)
(* C28: no index panic is reachable in the core.  For every N, N = 0       *)
(* included, and every input, add_assign of the Fixed-Array gradient,      *)
(* into_variables of an array, the LowerExp formatter and into_variables   *)
(* of a Vec reach no panic: every index they use is in bounds, and they    *)
(* return N slots, N variables of N slots, N written values.               *)
(***************************************************************************)
NoIndexPanic ==
    icall # "none" =>
        /\ ~iout.panicked
        /\ icall = "add_assign" => Len(iout.value) = isize
        /\ icall \in {"array_into_variables", "vector_into_variables"} =>
              /\ Len(iout.value) = isize
              /\ \A index \in 1..isize :
                    /\ iout.value[index].value = iout.args[1][index]
                    /\ Len(iout.value[index].dual) = isize
        /\ icall = "fmt" =>
              /\ iout.value.values = iout.args[1]
              /\ iout.value.separators = (IF isize = 0 THEN 0 ELSE isize - 1)

\* formatting the gradient of N = 0 slots writes no value and does not panic
NoIndexPanicWitness ==
    /\ icall = "fmt"
    /\ isize = 0
    /\ ~iout.panicked
    /\ iout.value.values = <<>>

(***************************************************************************)
(* C24: the fused sin_cos agrees with the separate functions.  For every   *)
(* dual number x, x.sin_cos() = (x.sin(), x.cos()); sin has the value      *)
(* sin(x.value) and the derivative cos(x.value) * x.derivative, cos has    *)
(* the value cos(x.value) and the derivative -sin(x.value) * x.derivative, *)
(* in every component and with the shape of x.derivative.  The scalar      *)
(* DualNumber of lib.rs gives the same on a scalar.                        *)
(***************************************************************************)
SinOf(x) == RSinCos(x)[1]
CosOf(x) == RSinCos(x)[2]
AsScalar(x) == [val |-> x.value, dual |-> x.dual]

SinCosAgree ==
    /\ op \in {"sin", "sin_cos.0"} =>
          /\ out.value = SinOf(lhs.value)
          /\ \A i \in Components :
                Partial(shape, out.dual, i) = RMul(CosOf(lhs.value), Partial(shape, lhs.dual, i))
    /\ op \in {"cos", "sin_cos.1"} =>
          /\ out.value = CosOf(lhs.value)
          /\ \A i \in Components :
                Partial(shape, out.dual, i)
                    = RMul(RNeg(SinOf(lhs.value)), Partial(shape, lhs.dual, i))
    /\ op \in {"sin", "cos", "sin_cos.0", "sin_cos.1"} =>
          /\ shape # "single" => DOMAIN out.dual = DOMAIN lhs.dual
          /\ lib = "fluid" => sin_cos(shape, lhs) = <<sin(shape, lhs), cos(shape, lhs)>>
          /\ shape = "single" =>
                /\ ScalarSinCos(AsScalar(lhs)) = <<ScalarSin(AsScalar(lhs)), ScalarCos(AsScalar(lhs))>>
                /\ op \in {"sin", "sin_cos.0"} => ScalarSin(AsScalar(lhs)) = AsScalar(out)
                /\ op \in {"cos", "sin_cos.1"} => ScalarCos(AsScalar(lhs)) = AsScalar(out)

\* the cosine member of sin_cos at 2 + eps_2 on an array: -3/5 - 4/5 eps_2
SinCosWitness ==
    /\ op = "sin_cos.1"
    /\ shape = "array"
    /\ lhs = new(Int2Rat(2), <<Zero, One>>)
    /\ out = new(Rat(-3, 5), <<Zero, Rat(-4, 5)>>)

==============================================================================
